---- MODULE Spec2Model ----
(***************************************************************************)
(* Model of the electrostatic field solve of picrs (src/engine/mod.rs)     *)
(* with the ScalarField / VectorField storage it works on                  *)
(* (src/field/scalar.rs, src/field/vector.rs).                             *)
(*                                                                         *)
(* Number model.  f64 values are modelled as scaled integers that are      *)
(* rounded to nearest wherever the code multiplies by a non-integer or     *)
(* divides:                                                                *)
(*   - geometric quantities (size, delta, delta_inv_sq, SOR_ACC and the    *)
(*     factors -1/(2*delta)) are counted in units of 1/GScale;             *)
(*   - field quantities (potential, electric_field, residuals, the l2      *)
(*     norm, and the product charge_density * INV_VAC_PERM) are counted in *)
(*     units of GS_TOL, so the tolerance 1e-5 is the integer 1;            *)
(*   - charge_density is counted in units of GS_TOL * VAC_PERM, so the     *)
(*     factor INV_VAC_PERM is 1 in the model's units;                      *)
(*   - the square of a residual is counted in units of GS_TOL^2 and is     *)
(*     exact; sqrt rounds back to units of GS_TOL;                         *)
(*   - NaN is the one non-number of f64 the model keeps: it is absorbing   *)
(*     for arithmetic and every ordered comparison with it is false.       *)
(***************************************************************************)
EXTENDS Integers, Sequences, FiniteSets, TLC

\* ------------------------------------------------------------------------
\* bounds of the model

\* largest number of cells along the y axis of a modelled grid
MaxCells == 4

\* number of update() calls a behaviour may make
MaxUpdates == 2

\* number of writes of the deposition collaborator a behaviour may make
MaxDeposits == 1

\* number of calls a run of grid-scalar operators makes
MaxOps == 5

\* number of calls a run of the other operator families makes
MaxGridOps == 2

\* number of relaxation sweeps applied on their own
MaxSweeps == 3

\* ------------------------------------------------------------------------
\* f64 arithmetic

\* resolution of geometric quantities: one unit is 1/GScale
GScale == 100

\* the f64 not-a-number
NaN == -1000000000

\* f64::MAX, in units of GS_TOL
F64_MAX == 1000000000

IsNaN(a) == a = NaN

\* a / b rounded to the nearest integer, for integers a and b, b # 0
RoundDiv(a, b) ==
    IF b > 0 THEN (2 * a + b) \div (2 * b)
    ELSE (2 * (0 - a) + (0 - b)) \div (2 * (0 - b))

\* field + field
FAdd(a, b) == IF IsNaN(a) \/ IsNaN(b) THEN NaN ELSE a + b

\* field - field
FSub(a, b) == IF IsNaN(a) \/ IsNaN(b) THEN NaN ELSE a - b

\* -field
FNeg(a) == IF IsNaN(a) THEN NaN ELSE 0 - a

\* integer-valued f64 literal * field (exact)
FScale(n, a) == IF IsNaN(a) THEN NaN ELSE n * a

\* geometric factor * field, rounded
GMul(g, a) == IF IsNaN(a) THEN NaN ELSE RoundDiv(g * a, GScale)

\* field / geometric factor, rounded; x/0 is not a number the model keeps
GDiv(a, g) == IF IsNaN(a) \/ g = 0 THEN NaN ELSE RoundDiv(a * GScale, g)

\* field * field, in units of GS_TOL^2 (exact)
FSq(a) == IF IsNaN(a) THEN NaN ELSE a * a

\* largest r in lo..hi with r * r <= n, given lo * lo <= n < (hi + 1) * (hi + 1)
RECURSIVE ISqrtIn(_, _, _)
ISqrtIn(n, lo, hi) ==
    IF lo >= hi THEN lo
    ELSE LET mid == (lo + hi + 1) \div 2
         IN  IF mid * mid <= n THEN ISqrtIn(n, mid, hi) ELSE ISqrtIn(n, lo, mid - 1)

\* f64::sqrt of a value in units of GS_TOL^2, rounded to units of GS_TOL
FSqrt(a) ==
    IF IsNaN(a) \/ a < 0 THEN NaN
    ELSE LET r == ISqrtIn(a, 0, 46340)
         IN  IF a - r * r > r THEN r + 1 ELSE r

\* a > b on f64: false when either side is NaN
FGt(a, b) == ~IsNaN(a) /\ ~IsNaN(b) /\ a > b

\* f64 infinity (the quotient of a positive number by 0.0), and every
\* finite f64 too large for the numbers the model keeps
Inf == 2000000000

\* usize::MAX, what 0 - 1 wraps to where overflow is not checked
USIZE_MAX == 2147483647

\* the element type T of a grid under test is f64, counted in units of
\* 1/GScale: `a + b` and `a - b` are FAdd and FSub

\* a * b on T, rounded
TMul(a, b) == IF IsNaN(a) \/ IsNaN(b) THEN NaN ELSE RoundDiv(a * b, GScale)

\* a / b on T, rounded; x/0 is not a number the model keeps
TDiv(a, b) ==
    IF IsNaN(a) \/ IsNaN(b) \/ b = 0 THEN NaN ELSE RoundDiv(a * GScale, b)

\* ------------------------------------------------------------------------
\* program constants

\* 1.4, in units of 1/GScale
SOR_ACC == 140

CONV_CHECK_ITER == 25

GS_MAX_ITER == 10000

\* 1e-5, the unit of field quantities
GS_TOL == 1

\* 1 / VAC_PERM, in the model's unit of charge density
INV_VAC_PERM == 1

\* ------------------------------------------------------------------------
\* CoordinateTriplet

CoordinateTriplet(a, b, c) == [x |-> a, y |-> b, z |-> c]

\* ------------------------------------------------------------------------
\* ScalarField: a flat buffer with column-major addressing

\* ScalarFieldNew with the plane offset taken as cells.x * cells.x
ScalarFieldNewSquarePlane(cells) ==
    [data     |-> [n \in 1..(cells.x * cells.y * cells.z) |-> 0],
     cells    |-> cells,
     r_offset |-> cells.x,
     p_offset |-> cells.x * cells.x]

\* ScalarFieldNew with a buffer of one plane only
ScalarFieldNewOnePlane(cells) ==
    [data     |-> [n \in 1..(cells.x * cells.y) |-> 0],
     cells    |-> cells,
     r_offset |-> cells.x,
     p_offset |-> cells.x * cells.y]

ScalarFieldNew(cells) ==
    [data     |-> [n \in 1..(cells.x * cells.y * cells.z) |-> 0],
     cells    |-> cells,
     r_offset |-> cells.x,
     p_offset |-> cells.x * cells.y]

\* position of (i, j, k) in the buffer, counted from 0
LinearIndex(sf, i, j, k) == i + sf.r_offset * j + sf.p_offset * k

\* the Vec bounds check of data[...]: a position outside the buffer panics
InBuffer(sf, i, j, k) ==
    /\ LinearIndex(sf, i, j, k) >= 0
    /\ LinearIndex(sf, i, j, k) < Len(sf.data)

\* sf[(i, j, k)]
Index(sf, i, j, k) == sf.data[LinearIndex(sf, i, j, k) + 1]

\* IndexMut with the plane offset left out of the position
IndexMutOnePlane(sf, i, j, k, v) ==
    [sf EXCEPT !.data[i + sf.r_offset * j + 1] = v]

\* sf[(i, j, k)] = v
IndexMut(sf, i, j, k, v) ==
    [sf EXCEPT !.data[LinearIndex(sf, i, j, k) + 1] = v]

\* ------------------------------------------------------------------------
\* compound operators of ScalarField

\* `iter_mut().zip(nums.iter()).for_each(|(elem, num)| *elem op= *num)`, one
\* definition per operator: the zip ends with the shorter of the two
ZipAdd(data, nums) ==
    [p \in DOMAIN data |-> IF p <= Len(nums) THEN FAdd(data[p], nums[p]) ELSE data[p]]

ZipSub(data, nums) ==
    [p \in DOMAIN data |-> IF p <= Len(nums) THEN FSub(data[p], nums[p]) ELSE data[p]]

ZipMul(data, nums) ==
    [p \in DOMAIN data |-> IF p <= Len(nums) THEN TMul(data[p], nums[p]) ELSE data[p]]

ZipDiv(data, nums) ==
    [p \in DOMAIN data |-> IF p <= Len(nums) THEN TDiv(data[p], nums[p]) ELSE data[p]]

\* `iter_mut().for_each(|elem| *elem op= rhs)`, one definition per operator
EachAdd(data, rhs) == [p \in DOMAIN data |-> FAdd(data[p], rhs)]

EachSub(data, rhs) == [p \in DOMAIN data |-> FSub(data[p], rhs)]

EachMul(data, rhs) == [p \in DOMAIN data |-> TMul(data[p], rhs)]

EachDiv(data, rhs) == [p \in DOMAIN data |-> TDiv(data[p], rhs)]

\* ScalarField<T> += ScalarField<T>
SfAddAssignSf(sf, rhs) ==
    [sf EXCEPT !.data = ZipAdd(sf.data, rhs.data)]

\* SfSubAssignSf with every element paired with the first element of rhs
SfSubAssignSfFirst(sf, rhs) ==
    [sf EXCEPT !.data = [p \in DOMAIN sf.data |-> FSub(sf.data[p], rhs.data[1])]]

\* ScalarField<T> -= ScalarField<T>
SfSubAssignSf(sf, rhs) ==
    [sf EXCEPT !.data = ZipSub(sf.data, rhs.data)]

\* ScalarField<T> *= ScalarField<T>
SfMulAssignSf(sf, rhs) ==
    [sf EXCEPT !.data = ZipMul(sf.data, rhs.data)]

\* ScalarField<T> /= ScalarField<T>
SfDivAssignSf(sf, rhs) ==
    [sf EXCEPT !.data = ZipDiv(sf.data, rhs.data)]

\* ScalarField<T> += T
SfAddAssignT(sf, rhs) ==
    [sf EXCEPT !.data = EachAdd(sf.data, rhs)]

\* ScalarField<T> -= T
SfSubAssignT(sf, rhs) ==
    [sf EXCEPT !.data = EachSub(sf.data, rhs)]

\* SfMulAssignT with the first element left out of the loop
SfMulAssignTSkipFirst(sf, rhs) ==
    [sf EXCEPT !.data = [p \in DOMAIN sf.data |->
                            IF p = 1 THEN sf.data[p] ELSE TMul(sf.data[p], rhs)]]

\* ScalarField<T> *= T
SfMulAssignT(sf, rhs) ==
    [sf EXCEPT !.data = EachMul(sf.data, rhs)]

\* ScalarField<T> /= T
SfDivAssignT(sf, rhs) ==
    [sf EXCEPT !.data = EachDiv(sf.data, rhs)]

\* ------------------------------------------------------------------------
\* VectorField: three ScalarFields of one shape

VectorFieldNew(cells) ==
    [cells |-> cells,
     x     |-> ScalarFieldNew(cells),
     y     |-> ScalarFieldNew(cells),
     z     |-> ScalarFieldNew(cells)]

\* ------------------------------------------------------------------------
\* Display for VectorField

\* the index the line of cell c reads the z component with: `self.z[(i, k, j)]`
FmtZIndex(c) == <<c[1], c[3], c[2]>>

\* the index of the z component is in the Vec (no index panic)
FmtZInBuffer(vf, c) ==
    InBuffer(vf.z, FmtZIndex(c)[1], FmtZIndex(c)[2], FmtZIndex(c)[3])

\* what `write!(f, "VectorField({}, {}, {}) = [{}, {}, {}]\n", ..)` writes for
\* cell c: the three indices and the three values it was given, each number
\* standing for its text
FmtLine(vf, c) ==
    [at |-> c,
     x  |-> Index(vf.x, c[1], c[2], c[3]),
     y  |-> Index(vf.y, c[1], c[2], c[3]),
     z  |-> Index(vf.z, FmtZIndex(c)[1], FmtZIndex(c)[2], FmtZIndex(c)[3])]

\* fmt: the loops take the cells in the order i, j, k and write one line per
\* cell, up to the first cell whose z index is outside the Vec, where the
\* index panics
VectorFieldFmt(vf) ==
    LET nodes == [n \in 1..(vf.cells.x * vf.cells.y * vf.cells.z) |->
                     <<(n - 1) \div (vf.cells.y * vf.cells.z),
                       ((n - 1) \div vf.cells.z) % vf.cells.y,
                       (n - 1) % vf.cells.z>>]
        bad   == {m \in 1..Len(nodes) : ~FmtZInBuffer(vf, nodes[m])}
        stop  == IF bad = {} THEN Len(nodes) + 1
                 ELSE CHOOSE m \in bad : \A o \in bad : m <= o
    IN  [lines |-> [m \in 1..(stop - 1) |-> FmtLine(vf, nodes[m])],
         panic |-> stop <= Len(nodes)]

\* ------------------------------------------------------------------------
\* compound operators of VectorField: one loop per component

\* VfAddAssignVf with the y loop zipped with rhs.x
VfAddAssignVfCrossed(vf, rhs) ==
    [vf EXCEPT !.x.data = ZipAdd(vf.x.data, rhs.x.data),
               !.y.data = ZipAdd(vf.y.data, rhs.x.data),
               !.z.data = ZipAdd(vf.z.data, rhs.z.data)]

\* VectorField<T> += VectorField<T>
VfAddAssignVf(vf, rhs) ==
    [vf EXCEPT !.x.data = ZipAdd(vf.x.data, rhs.x.data),
               !.y.data = ZipAdd(vf.y.data, rhs.y.data),
               !.z.data = ZipAdd(vf.z.data, rhs.z.data)]

\* VectorField<T> -= VectorField<T>
VfSubAssignVf(vf, rhs) ==
    [vf EXCEPT !.x.data = ZipSub(vf.x.data, rhs.x.data),
               !.y.data = ZipSub(vf.y.data, rhs.y.data),
               !.z.data = ZipSub(vf.z.data, rhs.z.data)]

\* VectorField<T> *= VectorField<T>
VfMulAssignVf(vf, rhs) ==
    [vf EXCEPT !.x.data = ZipMul(vf.x.data, rhs.x.data),
               !.y.data = ZipMul(vf.y.data, rhs.y.data),
               !.z.data = ZipMul(vf.z.data, rhs.z.data)]

\* VectorField<T> /= VectorField<T>
VfDivAssignVf(vf, rhs) ==
    [vf EXCEPT !.x.data = ZipDiv(vf.x.data, rhs.x.data),
               !.y.data = ZipDiv(vf.y.data, rhs.y.data),
               !.z.data = ZipDiv(vf.z.data, rhs.z.data)]

\* VectorField<T> += T
VfAddAssignT(vf, rhs) ==
    [vf EXCEPT !.x.data = EachAdd(vf.x.data, rhs),
               !.y.data = EachAdd(vf.y.data, rhs),
               !.z.data = EachAdd(vf.z.data, rhs)]

\* VectorField<T> -= T
VfSubAssignT(vf, rhs) ==
    [vf EXCEPT !.x.data = EachSub(vf.x.data, rhs),
               !.y.data = EachSub(vf.y.data, rhs),
               !.z.data = EachSub(vf.z.data, rhs)]

\* VectorField<T> *= T
VfMulAssignT(vf, rhs) ==
    [vf EXCEPT !.x.data = EachMul(vf.x.data, rhs),
               !.y.data = EachMul(vf.y.data, rhs),
               !.z.data = EachMul(vf.z.data, rhs)]

\* VectorField<T> /= T
VfDivAssignT(vf, rhs) ==
    [vf EXCEPT !.x.data = EachDiv(vf.x.data, rhs),
               !.y.data = EachDiv(vf.y.data, rhs),
               !.z.data = EachDiv(vf.z.data, rhs)]

\* VectorField<T> += ScalarField<T>
VfAddAssignSf(vf, rhs) ==
    [vf EXCEPT !.x.data = ZipAdd(vf.x.data, rhs.data),
               !.y.data = ZipAdd(vf.y.data, rhs.data),
               !.z.data = ZipAdd(vf.z.data, rhs.data)]

\* VectorField<T> -= ScalarField<T>
VfSubAssignSf(vf, rhs) ==
    [vf EXCEPT !.x.data = ZipSub(vf.x.data, rhs.data),
               !.y.data = ZipSub(vf.y.data, rhs.data),
               !.z.data = ZipSub(vf.z.data, rhs.data)]

\* VectorField<T> *= ScalarField<T>
VfMulAssignSf(vf, rhs) ==
    [vf EXCEPT !.x.data = ZipMul(vf.x.data, rhs.data),
               !.y.data = ZipMul(vf.y.data, rhs.data),
               !.z.data = ZipMul(vf.z.data, rhs.data)]

\* VfDivAssignSf without the loop of the z component
VfDivAssignSfNoZ(vf, rhs) ==
    [vf EXCEPT !.x.data = ZipDiv(vf.x.data, rhs.data),
               !.y.data = ZipDiv(vf.y.data, rhs.data)]

\* VectorField<T> /= ScalarField<T>
VfDivAssignSf(vf, rhs) ==
    [vf EXCEPT !.x.data = ZipDiv(vf.x.data, rhs.data),
               !.y.data = ZipDiv(vf.y.data, rhs.data),
               !.z.data = ZipDiv(vf.z.data, rhs.data)]

\* ------------------------------------------------------------------------
\* loop ranges

\* number of values of the range lo..hi (hi excluded)
RangeLen(lo, hi) == IF hi > lo THEN hi - lo ELSE 0

\* the triples of `for i in 1..(cells.x - 1) { for j in 1..(cells.y - 1)
\* { for k in 1..(cells.z - 1)`, in the order the loops visit them
InteriorNodes(cells) ==
    LET ni == RangeLen(1, cells.x - 1)
        nj == RangeLen(1, cells.y - 1)
        nk == RangeLen(1, cells.z - 1)
    IN  [n \in 1..(ni * nj * nk) |->
            <<1 + ((n - 1) \div (nj * nk)),
              1 + (((n - 1) \div nk) % nj),
              1 + ((n - 1) % nk)>>]

\* AllNodes with the loops running over the interior nodes only
AllNodesInterior(cells) == InteriorNodes(cells)

\* the triples of `for i in 0..cells.x { for j in 0..cells.y
\* { for k in 0..cells.z`, in the order the loops visit them
AllNodes(cells) ==
    [n \in 1..(cells.x * cells.y * cells.z) |->
        <<(n - 1) \div (cells.y * cells.z),
          ((n - 1) \div cells.z) % cells.y,
          (n - 1) % cells.z>>]

\* ------------------------------------------------------------------------
\* Electrostatic::new

\* `cells - 1` on usize where overflow is not checked (a release build)
CellsLessOne(n) == IF n = 0 THEN USIZE_MAX ELSE n - 1

\* `size / n as f64` for a positive size: infinity for n = 0, and less than
\* the model's resolution for n = usize::MAX
SizeOver(s, n) ==
    IF n = 0 THEN Inf ELSE IF n = USIZE_MAX THEN 0 ELSE RoundDiv(s, n)

\* NewDelta with the size divided by the number of cells
NewDeltaPerCell(size, cells) ==
    CoordinateTriplet(SizeOver(size.x, cells.x),
                      SizeOver(size.y, cells.y),
                      SizeOver(size.z, cells.z))

\* size / (cells - 1) as f64
NewDelta(size, cells) ==
    CoordinateTriplet(SizeOver(size.x, CellsLessOne(cells.x)),
                      SizeOver(size.y, CellsLessOne(cells.y)),
                      SizeOver(size.z, CellsLessOne(cells.z)))

\* 1.0 / (d * d): 0 for an infinite d, and beyond the model's numbers for a
\* d below its resolution
InvSq(d) ==
    IF d = Inf THEN 0
    ELSE IF RoundDiv(d * d, GScale) = 0 THEN Inf
    ELSE RoundDiv(GScale * GScale, RoundDiv(d * d, GScale))

NewDeltaInvSq(delta) ==
    CoordinateTriplet(InvSq(delta.x), InvSq(delta.y), InvSq(delta.z))

\* whether `cells - 1` overflows: a build with overflow checks (debug)
\* panics there, a build without (release) wraps
NewPanics(cells, build) ==
    build = "debug" /\ (cells.x = 0 \/ cells.y = 0 \/ cells.z = 0)

\* what Electrostatic::new(size, cells) returns: every `?` of the body is on
\* a constructor that returns Ok, so the result is Ok(Electrostatic { .. })
\* unless the call panics
ElectrostaticNew(size, cells, build) ==
    IF NewPanics(cells, build) THEN [outcome |-> "panicked"]
    ELSE [outcome        |-> "ok",
          size           |-> size,
          cells          |-> cells,
          delta          |-> NewDelta(size, cells),
          potential      |-> ScalarFieldNew(cells),
          charge_density |-> ScalarFieldNew(cells),
          electric_field |-> VectorFieldNew(cells),
          cell_vol       |-> ScalarFieldNew(cells),
          delta_inv_sq   |-> NewDeltaInvSq(NewDelta(size, cells))]

\* ------------------------------------------------------------------------
\* Electrostatic::solve_potential: one relaxation sweep

\* PotentialNew with the y and z neighbours added as the x neighbours are
PotentialNewAllAdded(P, rho, dis, i, j, k) ==
    GDiv(FAdd(FAdd(FAdd(FScale(INV_VAC_PERM, Index(rho, i, j, k)),
                        GMul(dis.x, FAdd(Index(P, i + 1, j, k), Index(P, i - 1, j, k)))),
                   GMul(dis.y, FAdd(Index(P, i, j + 1, k), Index(P, i, j - 1, k)))),
              GMul(dis.z, FAdd(Index(P, i, j, k + 1), Index(P, i, j, k - 1)))),
         2 * (dis.x + dis.y + dis.z))

\* potential_new of node (i, j, k)
PotentialNew(P, rho, dis, i, j, k) ==
    GDiv(FAdd(FAdd(FAdd(FScale(INV_VAC_PERM, Index(rho, i, j, k)),
                        GMul(dis.x, FAdd(Index(P, i + 1, j, k), Index(P, i - 1, j, k)))),
                   GMul(dis.y, FSub(Index(P, i, j + 1, k), Index(P, i, j - 1, k)))),
              GMul(dis.z, FSub(Index(P, i, j, k + 1), Index(P, i, j, k - 1)))),
         2 * (dis.x + dis.y + dis.z))

\* RelaxNode with the result written one node too low along x
RelaxNodeShifted(P, rho, dis, i, j, k) ==
    IndexMut(P, i - 1, j, k,
             FAdd(Index(P, i, j, k),
                  GMul(SOR_ACC,
                       FSub(PotentialNew(P, rho, dis, i, j, k),
                            Index(P, i, j, k)))))

\* RelaxNode with the result written one node too high along z
RelaxNodeHighZ(P, rho, dis, i, j, k) ==
    IndexMut(P, i, j, k + 1,
             FAdd(Index(P, i, j, k),
                  GMul(SOR_ACC,
                       FSub(PotentialNew(P, rho, dis, i, j, k),
                            Index(P, i, j, k)))))

\* self.potential[(i, j, k)] += SOR_ACC * (potential_new - self.potential[(i, j, k)])
RelaxNode(P, rho, dis, i, j, k) ==
    IndexMut(P, i, j, k,
             FAdd(Index(P, i, j, k),
                  GMul(SOR_ACC,
                       FSub(PotentialNew(P, rho, dis, i, j, k),
                            Index(P, i, j, k)))))

\* the index triples with which the update of node (i, j, k) reads
\* charge_density and potential and writes potential
RelaxAccesses(i, j, k) ==
    {<<i, j, k>>, <<i + 1, j, k>>, <<i - 1, j, k>>, <<i, j + 1, k>>,
     <<i, j - 1, k>>, <<i, j, k + 1>>, <<i, j, k - 1>>}

\* the index triples solve_potential uses: those of the sweep, and those of
\* the convergence check, which reads the same nodes
SolvePotentialAccesses(cells) ==
    UNION {RelaxAccesses(InteriorNodes(cells)[n][1], InteriorNodes(cells)[n][2],
                         InteriorNodes(cells)[n][3]) :
              n \in DOMAIN InteriorNodes(cells)}

\* the sweep over the interior nodes from the n-th node on, in place
RECURSIVE SweepFrom(_, _, _, _, _)
SweepFrom(P, rho, dis, nodes, n) ==
    IF n > Len(nodes) THEN P
    ELSE SweepFrom(RelaxNode(P, rho, dis, nodes[n][1], nodes[n][2], nodes[n][3]),
                   rho, dis, nodes, n + 1)

\* Sweep with every node updated from the grid of before the sweep
SweepNotInPlace(P, rho, dis, cells) ==
    [P EXCEPT !.data =
        [p \in DOMAIN P.data |->
            LET ns == {n \in DOMAIN InteriorNodes(cells) :
                          LinearIndex(P, InteriorNodes(cells)[n][1],
                                      InteriorNodes(cells)[n][2],
                                      InteriorNodes(cells)[n][3]) + 1 = p}
            IN  IF ns = {} THEN P.data[p]
                ELSE LET c == InteriorNodes(cells)[CHOOSE n \in ns : TRUE]
                     IN  Index(RelaxNode(P, rho, dis, c[1], c[2], c[3]),
                               c[1], c[2], c[3])]]

Sweep(P, rho, dis, cells) == SweepFrom(P, rho, dis, InteriorNodes(cells), 1)

\* ------------------------------------------------------------------------
\* Electrostatic::solve_potential: the convergence check

\* Residual with the charge term left out
ResidualNoCharge(P, rho, dis, i, j, k) ==
    FAdd(FAdd(FAdd(GMul(dis.x + dis.y + dis.z, FScale(2, FNeg(Index(P, i, j, k)))),
                   GMul(dis.x, FAdd(Index(P, i + 1, j, k), Index(P, i - 1, j, k)))),
              GMul(dis.y, FSub(Index(P, i, j + 1, k), Index(P, i, j - 1, k)))),
         GMul(dis.z, FSub(Index(P, i, j, k + 1), Index(P, i, j, k - 1))))

\* res of node (i, j, k)
Residual(P, rho, dis, i, j, k) ==
    FAdd(FAdd(FAdd(FAdd(GMul(dis.x + dis.y + dis.z, FScale(2, FNeg(Index(P, i, j, k)))),
                        FScale(INV_VAC_PERM, Index(rho, i, j, k))),
                   GMul(dis.x, FAdd(Index(P, i + 1, j, k), Index(P, i - 1, j, k)))),
              GMul(dis.y, FSub(Index(P, i, j + 1, k), Index(P, i, j - 1, k)))),
         GMul(dis.z, FSub(Index(P, i, j, k + 1), Index(P, i, j, k - 1))))

\* res_acc after the nodes from the n-th on have been accumulated
RECURSIVE ResAccFrom(_, _, _, _, _, _)
ResAccFrom(acc, P, rho, dis, nodes, n) ==
    IF n > Len(nodes) THEN acc
    ELSE ResAccFrom(FAdd(acc, FSq(Residual(P, rho, dis,
                                           nodes[n][1], nodes[n][2], nodes[n][3]))),
                    P, rho, dis, nodes, n + 1)

\* (res_acc / (cells.x * cells.y * cells.z) as f64).sqrt()
L2ErrNorm(P, rho, dis, cells) ==
    LET res_acc == ResAccFrom(0, P, rho, dis, InteriorNodes(cells), 1)
    IN  FSqrt(IF IsNaN(res_acc) THEN NaN
              ELSE RoundDiv(res_acc, cells.x * cells.y * cells.z))

\* ------------------------------------------------------------------------
\* Electrostatic::solve_electric_field

\* -1.0 / (2.0 * d)
NegTwoInv(d) == RoundDiv(0 - GScale * GScale, 2 * d)

\* node c moved by d along axis a (1 = x, 2 = y, 3 = z)
Shift(c, a, d) == [c EXCEPT ![a] = c[a] + d]

\* the number of cells along axis a
AxisCells(cells, a) == IF a = 1 THEN cells.x ELSE IF a = 2 THEN cells.y ELSE cells.z

AxisOf(t, a) == IF a = 1 THEN t.x ELSE IF a = 2 THEN t.y ELSE t.z

\* StencilReads with the forward difference reaching one node further
StencilReadsFar(cells, c, a) ==
    IF c[a] # 0 /\ c[a] # AxisCells(cells, a) - 1
    THEN <<Shift(c, a, 1), Shift(c, a, 0 - 1)>>
    ELSE IF c[a] = 0
         THEN <<c, Shift(c, a, 1), Shift(c, a, 3)>>
         ELSE <<Shift(c, a, 0 - 2), Shift(c, a, 0 - 1), c>>

\* the nodes whose potential the stencil of axis a reads at node c
StencilReads(cells, c, a) ==
    IF c[a] # 0 /\ c[a] # AxisCells(cells, a) - 1
    THEN <<Shift(c, a, 1), Shift(c, a, 0 - 1)>>
    ELSE IF c[a] = 0
         THEN <<c, Shift(c, a, 1), Shift(c, a, 2)>>
         ELSE <<Shift(c, a, 0 - 2), Shift(c, a, 0 - 1), c>>

At(sf, c) == Index(sf, c[1], c[2], c[3])

\* StencilValue with the forward difference weighting the next node by 3.0
StencilValueLowEdge3(P, delta, cells, c, a) ==
    LET n_two_d_inv == NegTwoInv(AxisOf(delta, a))
    IN  IF c[a] # 0 /\ c[a] # AxisCells(cells, a) - 1
        THEN GMul(n_two_d_inv, FSub(At(P, Shift(c, a, 1)), At(P, Shift(c, a, 0 - 1))))
        ELSE IF c[a] = 0
        THEN GMul(n_two_d_inv,
                  FSub(FAdd(FScale(0 - 3, At(P, c)), FScale(3, At(P, Shift(c, a, 1)))),
                       At(P, Shift(c, a, 2))))
        ELSE GMul(n_two_d_inv,
                  FAdd(FSub(At(P, Shift(c, a, 0 - 2)), FScale(4, At(P, Shift(c, a, 0 - 1)))),
                       FScale(3, At(P, c))))

\* StencilValue with the forward difference at every index but the last
StencilValueOneSided(P, delta, cells, c, a) ==
    LET n_two_d_inv == NegTwoInv(AxisOf(delta, a))
    IN  IF c[a] # 0 /\ c[a] # AxisCells(cells, a) - 1
        THEN IF c[a] + 2 <= AxisCells(cells, a) - 1
             THEN GMul(n_two_d_inv,
                       FSub(FAdd(FScale(0 - 3, At(P, c)),
                                 FScale(4, At(P, Shift(c, a, 1)))),
                            At(P, Shift(c, a, 2))))
             ELSE GMul(n_two_d_inv,
                       FSub(At(P, Shift(c, a, 1)), At(P, Shift(c, a, 0 - 1))))
        ELSE IF c[a] = 0
        THEN GMul(n_two_d_inv,
                  FSub(FAdd(FScale(0 - 3, At(P, c)), FScale(4, At(P, Shift(c, a, 1)))),
                       At(P, Shift(c, a, 2))))
        ELSE GMul(n_two_d_inv,
                  FAdd(FSub(At(P, Shift(c, a, 0 - 2)), FScale(4, At(P, Shift(c, a, 0 - 1)))),
                       FScale(3, At(P, c))))

\* the value the stencil of axis a gives at node c
StencilValue(P, delta, cells, c, a) ==
    LET n_two_d_inv == NegTwoInv(AxisOf(delta, a))
    IN  IF c[a] # 0 /\ c[a] # AxisCells(cells, a) - 1
        THEN \* central difference interior nodes
             GMul(n_two_d_inv, FSub(At(P, Shift(c, a, 1)), At(P, Shift(c, a, 0 - 1))))
        ELSE IF c[a] = 0
        THEN \* forward difference low edge
             GMul(n_two_d_inv,
                  FSub(FAdd(FScale(0 - 3, At(P, c)), FScale(4, At(P, Shift(c, a, 1)))),
                       At(P, Shift(c, a, 2))))
        ELSE \* backward difference high edge
             GMul(n_two_d_inv,
                  FAdd(FSub(At(P, Shift(c, a, 0 - 2)), FScale(4, At(P, Shift(c, a, 0 - 1)))),
                       FScale(3, At(P, c))))

\* every read of the stencil is inside the buffer (no index panic)
StencilInBuffer(P, cells, c, a) ==
    LET rd == StencilReads(cells, c, a)
    IN  \A m \in 1..Len(rd) : rd[m][a] >= 0 /\ InBuffer(P, rd[m][1], rd[m][2], rd[m][3])

\* the loops of solve_electric_field take the nodes in the order of AllNodes
\* and at each node assign the x, then the y, then the z component: step
\* 3 * (m - 1) + a is the assignment of component a at the m-th node
StepOf(m, a) == 3 * (m - 1) + a

\* the first step whose stencil indexes outside the buffer (an index panic
\* that ends the loops), or one past the last step when there is none
FirstPanicStep(P, cells, nodes) ==
    LET bad == {n \in 1..(3 * Len(nodes)) :
                    ~StencilInBuffer(P, cells, nodes[1 + ((n - 1) \div 3)],
                                     1 + ((n - 1) % 3))}
    IN  IF bad = {} THEN 3 * Len(nodes) + 1
        ELSE CHOOSE n \in bad : \A o \in bad : n <= o

\* component a of electric_field after the steps before `stop`: a buffer
\* position holds the value of the last step that assigned it
ComponentAfter(comp, P, delta, cells, nodes, a, stop) ==
    [comp EXCEPT !.data =
        [p \in DOMAIN comp.data |->
            LET ms == {m \in 1..Len(nodes) :
                          /\ StepOf(m, a) < stop
                          /\ LinearIndex(comp, nodes[m][1], nodes[m][2], nodes[m][3]) + 1 = p}
            IN  IF ms = {} THEN comp.data[p]
                ELSE StencilValue(P, delta, cells,
                                  nodes[CHOOSE m \in ms : \A o \in ms : o <= m], a)]]

\* the index triples solve_electric_field uses: at each node the reads of
\* the three stencils and the write of the three components at the node
SolveElectricFieldAccesses(cells) ==
    UNION {{AllNodes(cells)[n]}
             \cup UNION {{StencilReads(cells, AllNodes(cells)[n], a)[m] :
                             m \in DOMAIN StencilReads(cells, AllNodes(cells)[n], a)} :
                         a \in {1, 2, 3}} :
              n \in DOMAIN AllNodes(cells)}

\* electric_field after the loops of solve_electric_field, and whether they
\* ended in an index panic
SolveElectricFieldLoops(ef, P, delta, cells) ==
    LET nodes == AllNodes(cells)
        stop  == FirstPanicStep(P, cells, nodes)
    IN  [electric_field |->
            [ef EXCEPT !.x = ComponentAfter(ef.x, P, delta, cells, nodes, 1, stop),
                       !.y = ComponentAfter(ef.y, P, delta, cells, nodes, 2, stop),
                       !.z = ComponentAfter(ef.z, P, delta, cells, nodes, 3, stop)],
         panic |-> stop <= 3 * Len(nodes)]

\* ------------------------------------------------------------------------
\* inputs of the model

\* the size arguments of Electrostatic::new: 1.0 m and 2.0 m on every axis
Sizes == {CoordinateTriplet(GScale, GScale, GScale),
          CoordinateTriplet(2 * GScale, 2 * GScale, 2 * GScale)}

\* the cells arguments of Electrostatic::new
Shapes == {CoordinateTriplet(3, 3, 3),
           CoordinateTriplet(3, MaxCells, 3),
           CoordinateTriplet(2, 3, 3)}

\* the size arguments paired with a cells argument: the elongated domain is
\* built at 2.0 m only, the others at both sizes
SizesFor(c) ==
    IF c.y > 3 THEN {CoordinateTriplet(2 * GScale, 2 * GScale, 2 * GScale)}
    ELSE Sizes

\* the values the deposition collaborator writes
ChargeValues == {12, 40, NaN}

\* the nodes the deposition collaborator writes: the interior nodes, the
\* only ones whose charge_density the solver reads
DepositNodes(c) == {InteriorNodes(c)[n] : n \in 1..Len(InteriorNodes(c))}

\* ------------------------------------------------------------------------
\* state

VARIABLES
    size,            \* Electrostatic.size
    cells,           \* Electrostatic.cells
    delta,           \* Electrostatic.delta
    potential,       \* Electrostatic.potential
    charge_density,  \* Electrostatic.charge_density
    electric_field,  \* Electrostatic.electric_field
    cell_vol,        \* Electrostatic.cell_vol
    delta_inv_sq,    \* Electrostatic.delta_inv_sq
    pc,              \* where the caller of update() is: "idle" (no call in
                     \* progress), "solve_potential", "solve_electric_field",
                     \* or "panicked"
    loop_ctr,        \* solve_potential: loop_ctr
    l2_err_norm,     \* solve_potential: l2_err_norm
    solve_result,    \* what solve_potential returned to the current/last
                     \* update(): "none" (not yet), "ok", "err"
    result,          \* what the last update() returned: "none" (no call, or
                     \* the call has not returned), "ok", "err"
    stages,          \* history: the functions the current/last update() ran
    sweeps,          \* history: relaxation sweeps of the current/last update(),
                     \* counted up to GS_MAX_ITER + 2
    pre,             \* history: the engine as it was when the current/last
                     \* update() was called, what the update() before it had
                     \* returned and the charge_density of that earlier call
    left,            \* history: potential as construction or the last
                     \* returned update() left it
    updates,         \* history: update() calls made
    deposits,        \* history: writes of the deposition collaborator
    built,           \* a constructor call: its arguments, and once it has
                     \* returned what it returned
    sfield,          \* Model::run: sfield, a ScalarField of its own
    vfield,          \* Model::run: vfield, a VectorField of its own
    ops,             \* history: the calls made on sfield or vfield, each
                     \* with the grid as it was before the call
    profile          \* history: the manufactured potential written into
                     \* the engine, if any

\* the Electrostatic engine and the history of its update() calls
engine == <<size, cells, delta, potential, charge_density, electric_field,
            cell_vol, delta_inv_sq, pc, loop_ctr, l2_err_norm, solve_result,
            result, stages, sweeps, pre, left, updates, deposits>>

\* the constructor call and the grids of their own
grids == <<built, sfield, vfield, ops>>

vars == <<engine, grids, profile>>

geometry == <<size, cells, delta, delta_inv_sq>>

\* ------------------------------------------------------------------------
\* Electrostatic::new(size, cells)

\* the engine Electrostatic::new(s, c) returns, before any update()
EngineInit(s, c) ==
    /\ size = s
    /\ cells = c
    /\ delta = NewDelta(s, c)
    /\ delta_inv_sq = NewDeltaInvSq(NewDelta(s, c))
    /\ potential = ScalarFieldNew(c)
    /\ charge_density = ScalarFieldNew(c)
    /\ electric_field = VectorFieldNew(c)
    /\ cell_vol = ScalarFieldNew(c)
    /\ pc = "idle"
    /\ loop_ctr = 0
    /\ l2_err_norm = F64_MAX
    /\ solve_result = "none"
    /\ result = "none"
    /\ stages = <<>>
    /\ sweeps = 0
    /\ pre = [size |-> s, cells |-> c, delta |-> NewDelta(s, c),
              potential |-> ScalarFieldNew(c),
              charge_density |-> ScalarFieldNew(c),
              electric_field |-> VectorFieldNew(c),
              cell_vol |-> ScalarFieldNew(c),
              delta_inv_sq |-> NewDeltaInvSq(NewDelta(s, c)),
              result |-> "none",
              prev_charge |-> ScalarFieldNew(c)]
    /\ left = ScalarFieldNew(c)
    /\ updates = 0
    /\ deposits = 0

\* no constructor call is under way and no grids of their own exist
NoGrids ==
    /\ built = [state |-> "none"]
    /\ sfield = ScalarFieldNew(CoordinateTriplet(0, 0, 0))
    /\ vfield = VectorFieldNew(CoordinateTriplet(0, 0, 0))
    /\ ops = <<>>

\* no manufactured potential has been written
NoProfile == profile = [axis |-> 0, a |-> 0, b |-> 0]

Init ==
    \E c \in Shapes : \E s \in SizesFor(c) :
        /\ EngineInit(s, c)
        /\ NoGrids
        /\ NoProfile

\* ------------------------------------------------------------------------
\* the deposition collaborator writes charge_density[(i, j, k)] = v between
\* two update() calls

Deposit ==
    /\ pc = "idle"
    /\ deposits < MaxDeposits
    /\ \E c \in DepositNodes(cells), v \in ChargeValues :
          charge_density' = IndexMut(charge_density, c[1], c[2], c[3], v)
    /\ deposits' = deposits + 1
    /\ UNCHANGED <<geometry, potential, electric_field, cell_vol, pc, loop_ctr,
                   l2_err_norm, solve_result, result, stages, sweeps, pre,
                   left, updates>>
    /\ UNCHANGED <<grids, profile>>

\* ------------------------------------------------------------------------
\* Electrostatic::update

\* InitialGuess with a cold start: the grid is reset to zero at every call
InitialGuessCold(P, c) == ScalarFieldNew(c)

\* the grid the first sweep of solve_potential works on: self.potential as
\* it is, nothing resets it
InitialGuess(P, c) == P

\* update() is called and enters solve_potential
UpdateCall ==
    /\ pc = "idle"
    /\ updates < MaxUpdates
    /\ pc' = "solve_potential"
    /\ potential' = InitialGuess(potential, cells)
    /\ loop_ctr' = 0
    /\ l2_err_norm' = F64_MAX
    /\ solve_result' = "none"
    /\ result' = "none"
    /\ stages' = <<"solve_potential">>
    /\ sweeps' = 0
    /\ pre' = [size |-> size, cells |-> cells, delta |-> delta,
               potential |-> potential, charge_density |-> charge_density,
               electric_field |-> electric_field, cell_vol |-> cell_vol,
               delta_inv_sq |-> delta_inv_sq, result |-> result,
               prev_charge |-> pre.charge_density]
    /\ updates' = updates + 1
    /\ UNCHANGED <<geometry, charge_density, electric_field, cell_vol, left,
                   deposits>>
    /\ UNCHANGED <<grids, profile>>

\* CheckedNorm with the check never taken: the norm stays what it was
CheckedNormStale(ctr, norm, P, rho, dis, c) == norm

\* CheckedNorm with the check taken on the last iteration of each period of
\* CONV_CHECK_ITER instead of the first
CheckedNormLate(ctr, norm, P, rho, dis, c) ==
    IF ctr % CONV_CHECK_ITER = CONV_CHECK_ITER - 1
    THEN L2ErrNorm(P, rho, dis, c) ELSE norm

\* CheckedNorm with the check taken after every sweep
CheckedNormEverySweep(ctr, norm, P, rho, dis, c) == L2ErrNorm(P, rho, dis, c)

\* the l2 norm after the sweep of iteration ctr: recomputed when ctr is a
\* multiple of CONV_CHECK_ITER, kept otherwise
CheckedNorm(ctr, norm, P, rho, dis, c) ==
    IF ctr % CONV_CHECK_ITER = 0 THEN L2ErrNorm(P, rho, dis, c) ELSE norm

\* `if loop_ctr == GS_MAX_ITER { return Err(..) }`
CapReached(ctr) == ctr = GS_MAX_ITER

\* NextCtr with the increment forgotten
NextCtrStuck(ctr) == ctr

\* `loop_ctr += 1`
NextCtr(ctr) == ctr + 1

\* ErrPotential with a rollback: the Err return restores the grid of before
\* the call
ErrPotentialRolledBack(swept, before) == before

\* the potential the Err return of solve_potential leaves: the grid as the
\* last sweep wrote it, not the grid of before the call
ErrPotential(swept, before) == swept

\* AfterSolveErr with the error dropped: update() goes on to
\* solve_electric_field
AfterSolveErrIgnored == "solve_electric_field"

\* what update() does with the Err of solve_potential: `?` returns it
AfterSolveErr == "idle"

\* one iteration of `while l2_err_norm > GS_TOL`: the sweep, the conditional
\* convergence check, and the error return or the counter increment
LoopIteration ==
    /\ pc = "solve_potential"
    /\ FGt(l2_err_norm, GS_TOL)
    /\ sweeps' = IF sweeps < GS_MAX_ITER + 2 THEN sweeps + 1 ELSE sweeps
    /\ LET swept == Sweep(potential, charge_density, delta_inv_sq, cells)
       IN  /\ l2_err_norm' = CheckedNorm(loop_ctr, l2_err_norm, swept,
                                         charge_density, delta_inv_sq, cells)
           /\ IF CapReached(loop_ctr)
              THEN /\ potential' = ErrPotential(swept, pre.potential)
                   /\ solve_result' = "err"
                   /\ pc' = AfterSolveErr
                   /\ result' = IF pc' = "idle" THEN "err" ELSE "none"
                   /\ left' = IF pc' = "idle" THEN potential' ELSE left
                   /\ stages' = IF pc' = "idle" THEN stages
                                ELSE Append(stages, pc')
                   /\ UNCHANGED loop_ctr
              ELSE /\ potential' = swept
                   /\ loop_ctr' = NextCtr(loop_ctr)
                   /\ UNCHANGED <<pc, solve_result, result, left, stages>>
    /\ UNCHANGED <<geometry, charge_density, electric_field, cell_vol, pre,
                   updates, deposits>>
    /\ UNCHANGED <<grids, profile>>

\* the loop condition fails: solve_potential returns Ok and update() enters
\* solve_electric_field
LoopExit ==
    /\ pc = "solve_potential"
    /\ ~FGt(l2_err_norm, GS_TOL)
    /\ solve_result' = "ok"
    /\ pc' = "solve_electric_field"
    /\ stages' = Append(stages, "solve_electric_field")
    /\ UNCHANGED <<geometry, potential, charge_density, electric_field,
                   cell_vol, loop_ctr, l2_err_norm, result, sweeps, pre, left,
                   updates, deposits>>
    /\ UNCHANGED <<grids, profile>>

\* solve_electric_field runs its loops; update() returns Ok, or an index
\* outside a buffer panics
SolveElectricField ==
    /\ pc = "solve_electric_field"
    /\ LET r == SolveElectricFieldLoops(electric_field, potential, delta, cells)
       IN  /\ electric_field' = r.electric_field
           /\ pc' = IF r.panic THEN "panicked" ELSE "idle"
           /\ result' = IF r.panic THEN result ELSE "ok"
           /\ left' = IF r.panic THEN left ELSE potential
    /\ UNCHANGED <<geometry, potential, charge_density, cell_vol, loop_ctr,
                   l2_err_norm, solve_result, stages, sweeps, pre, updates,
                   deposits>>
    /\ UNCHANGED <<grids, profile>>

Next ==
    \/ Deposit
    \/ UpdateCall
    \/ LoopIteration
    \/ LoopExit
    \/ SolveElectricField

Spec == Init /\ [][Next]_vars

\* ------------------------------------------------------------------------
\* the constructors, called on arguments of every kind

\* the size of the engine's tests
TestSize == CoordinateTriplet(GScale, 2 * GScale, 3 * GScale)

\* the shape of the engine's tests
TestShape == CoordinateTriplet(3, 11, 31)

\* the arguments of a constructor call: every shape of up to MaxCells cells
\* per axis, axes of 0 and 1 cells included, at each size, and the shape of
\* the engine's tests at their size
NewArgs ==
    ((Sizes \cup {TestSize}) \X {CoordinateTriplet(a, b, c) : a, b, c \in 0..MaxCells})
        \cup {<<TestSize, TestShape>>}

\* whether the build checks integer overflow
Builds == {"debug", "release"}

\* the engine of these behaviours is not used
EngineUnused == EngineInit(CoordinateTriplet(GScale, GScale, GScale),
                           CoordinateTriplet(3, 3, 3))

ConstructInit ==
    /\ \E a \in NewArgs, b \in Builds :
          built = [state |-> "args", size |-> a[1], cells |-> a[2], build |-> b]
    /\ sfield = ScalarFieldNew(CoordinateTriplet(0, 0, 0))
    /\ vfield = VectorFieldNew(CoordinateTriplet(0, 0, 0))
    /\ ops = <<>>
    /\ NoProfile
    /\ EngineUnused

\* Electrostatic::new(size, cells) is called and returns or panics
ElectrostaticNewCall ==
    /\ built.state = "args"
    /\ built' = [state |-> "returned", fn |-> "Electrostatic::new",
                 size |-> built.size, cells |-> built.cells,
                 build |-> built.build,
                 engine |-> ElectrostaticNew(built.size, built.cells, built.build)]
    /\ UNCHANGED <<engine, sfield, vfield, ops, profile>>

\* ScalarField::new(cells) is called and returns
ScalarFieldNewCall ==
    /\ built.state = "args"
    /\ built' = [state |-> "returned", fn |-> "ScalarField::new",
                 size |-> built.size, cells |-> built.cells,
                 build |-> built.build,
                 outcome |-> "ok",
                 grid |-> ScalarFieldNew(built.cells)]
    /\ UNCHANGED <<engine, sfield, vfield, ops, profile>>

ConstructNext ==
    \/ ElectrostaticNewCall
    \/ ScalarFieldNewCall

ConstructSpec == ConstructInit /\ [][ConstructNext]_vars

\* ------------------------------------------------------------------------
\* solve_electric_field on a manufactured potential

\* the shapes of the engines that are given a manufactured potential: 3
\* cells per axis, or MaxCells cells on one axis
ProfileShapes ==
    {CoordinateTriplet(3, 3, 3), CoordinateTriplet(MaxCells, 3, 3),
     CoordinateTriplet(3, MaxCells, 3), CoordinateTriplet(3, 3, MaxCells)}

\* their spacings, 0.5 m and 1.0 m on every axis: numbers f64 and the model
\* both hold exactly
ProfileSpacings == {GScale \div 2, GScale}

\* the size that gives the shape c the spacing d
ProfileSize(c, d) ==
    CoordinateTriplet(d * (c.x - 1), d * (c.y - 1), d * (c.z - 1))

\* the slopes and the offsets of the manufactured potentials, in units of
\* GS_TOL per index step and of GS_TOL
Slopes == {0 - 3, 2, 5}

Offsets == {0, 7}

\* the node whose cell is at position p of the buffer of a grid of shape c
NodeAt(c, p) ==
    <<(p - 1) % c.x, ((p - 1) \div c.x) % c.y, (p - 1) \div (c.x * c.y)>>

\* the grid of shape c with potential[(i, j, k)] = a * idx + b written to
\* every cell, idx being the index along the axis
LinearProfile(c, axis, a, b) ==
    [ScalarFieldNew(c) EXCEPT !.data =
        [p \in 1..(c.x * c.y * c.z) |-> a * NodeAt(c, p)[axis] + b]]

ProfileInit ==
    /\ \E c \in ProfileShapes, d \in ProfileSpacings :
          EngineInit(ProfileSize(c, d), c)
    /\ NoGrids
    /\ NoProfile

\* a caller writes a manufactured potential into the engine and calls
\* solve_electric_field
SetProfile ==
    /\ pc = "idle"
    /\ profile.axis = 0
    /\ \E axis \in 1..3, a \in Slopes, b \in Offsets :
          /\ potential' = LinearProfile(cells, axis, a, b)
          /\ profile' = [axis |-> axis, a |-> a, b |-> b]
    /\ pc' = "solve_electric_field"
    /\ stages' = <<"solve_electric_field">>
    /\ UNCHANGED <<geometry, charge_density, electric_field, cell_vol, loop_ctr,
                   l2_err_norm, solve_result, result, sweeps, pre, left,
                   updates, deposits>>
    /\ UNCHANGED grids

ProfileNext ==
    \/ SetProfile
    \/ SolveElectricField

ProfileSpec == ProfileInit /\ [][ProfileNext]_vars

\* ------------------------------------------------------------------------
\* the grids of their own: index writes and compound operators

\* the shapes sfield and vfield are constructed with
FieldShapes == {CoordinateTriplet(2, 3, 2), CoordinateTriplet(3, 1, 2),
                CoordinateTriplet(2, 2, 2)}

\* the scalars on the right of a compound operator: 2.0 and 5.0
Scalars == {2 * GScale, 5 * GScale}

\* the values written through the index operator: 10.0 and 20.0
WriteValues == {10 * GScale, 20 * GScale}

\* the four compound assignment methods
Methods == {"add_assign", "sub_assign", "mul_assign", "div_assign"}

\* a grid of shape c filled with v, made as the tests make it: new, then += v
Filled(c, v) == SfAddAssignT(ScalarFieldNew(c), v)

\* a grid of shape c whose cells all differ: position p holds p
Ramp(c) ==
    [ScalarFieldNew(c) EXCEPT !.data = [p \in 1..(c.x * c.y * c.z) |-> p * GScale]]

\* the ScalarFields on the right of a compound operator
RhsGrids(c) == {Filled(c, 2 * GScale), Ramp(c)}

\* the VectorFields on the right of a compound operator
RhsVectors(c) ==
    {[cells |-> c, x |-> Filled(c, 2 * GScale), y |-> Ramp(c),
      z |-> Filled(c, 5 * GScale)],
     [cells |-> c, x |-> Ramp(c), y |-> Filled(c, 5 * GScale),
      z |-> Filled(c, 2 * GScale)]}

\* `sf op= rhs` for a scalar rhs: the impl the method name selects
SfCallT(fn, sf, rhs) ==
    CASE fn = "add_assign" -> SfAddAssignT(sf, rhs)
      [] fn = "sub_assign" -> SfSubAssignT(sf, rhs)
      [] fn = "mul_assign" -> SfMulAssignT(sf, rhs)
      [] fn = "div_assign" -> SfDivAssignT(sf, rhs)

\* `sf op= rhs` for a ScalarField rhs
SfCallSf(fn, sf, rhs) ==
    CASE fn = "add_assign" -> SfAddAssignSf(sf, rhs)
      [] fn = "sub_assign" -> SfSubAssignSf(sf, rhs)
      [] fn = "mul_assign" -> SfMulAssignSf(sf, rhs)
      [] fn = "div_assign" -> SfDivAssignSf(sf, rhs)

\* `vf op= rhs` for a VectorField rhs
VfCallVf(fn, vf, rhs) ==
    CASE fn = "add_assign" -> VfAddAssignVf(vf, rhs)
      [] fn = "sub_assign" -> VfSubAssignVf(vf, rhs)
      [] fn = "mul_assign" -> VfMulAssignVf(vf, rhs)
      [] fn = "div_assign" -> VfDivAssignVf(vf, rhs)

\* `vf op= rhs` for a scalar rhs
VfCallT(fn, vf, rhs) ==
    CASE fn = "add_assign" -> VfAddAssignT(vf, rhs)
      [] fn = "sub_assign" -> VfSubAssignT(vf, rhs)
      [] fn = "mul_assign" -> VfMulAssignT(vf, rhs)
      [] fn = "div_assign" -> VfDivAssignT(vf, rhs)

\* `vf op= rhs` for a ScalarField rhs
VfCallSf(fn, vf, rhs) ==
    CASE fn = "add_assign" -> VfAddAssignSf(vf, rhs)
      [] fn = "sub_assign" -> VfSubAssignSf(vf, rhs)
      [] fn = "mul_assign" -> VfMulAssignSf(vf, rhs)
      [] fn = "div_assign" -> VfDivAssignSf(vf, rhs)

\* Model::run constructs sfield and vfield with one shape
FieldInit ==
    /\ \E c \in FieldShapes :
          /\ sfield = ScalarFieldNew(c)
          /\ vfield = VectorFieldNew(c)
    /\ ops = <<>>
    /\ built = [state |-> "none"]
    /\ NoProfile
    /\ EngineUnused

\* a run makes calls of one family, as each test of the source does, and
\* at most `most` of them; printing the grid is the last thing a run does
InRun(fam, most) ==
    /\ Len(ops) < most
    /\ IF ops = <<>> THEN TRUE
       ELSE ops[1].fam = fam /\ ops[Len(ops)].fn # "fmt"

\* sfield[(i, j, k)] = v at an in-range (i, j, k)
SFieldWrite ==
    /\ InRun("index", MaxGridOps)
    /\ \E i \in 0..(sfield.cells.x - 1), j \in 0..(sfield.cells.y - 1),
          k \in 0..(sfield.cells.z - 1), v \in WriteValues :
          /\ sfield' = IndexMut(sfield, i, j, k, v)
          /\ ops' = Append(ops, [fam |-> "index", fn |-> "index_mut",
                                  at |-> <<i, j, k>>, rhs |-> v, was |-> sfield])
    /\ UNCHANGED <<engine, built, vfield, profile>>

\* sfield op= scalar
SFieldOpT ==
    /\ InRun("sf_t", MaxOps)
    /\ \E fn \in Methods, t \in Scalars :
          /\ sfield' = SfCallT(fn, sfield, t)
          /\ ops' = Append(ops, [fam |-> "sf_t", fn |-> fn, rhs |-> t,
                                  was |-> sfield])
    /\ UNCHANGED <<engine, built, vfield, profile>>

\* sfield op= ScalarField of the same shape
SFieldOpSf ==
    /\ InRun("sf_sf", MaxGridOps)
    /\ \E fn \in Methods, g \in RhsGrids(sfield.cells) :
          /\ sfield' = SfCallSf(fn, sfield, g)
          /\ ops' = Append(ops, [fam |-> "sf_sf", fn |-> fn, rhs |-> g,
                                  was |-> sfield])
    /\ UNCHANGED <<engine, built, vfield, profile>>

\* vfield op= VectorField of the same shape
VFieldOpVf ==
    /\ InRun("vf", MaxGridOps)
    /\ \E fn \in Methods, w \in RhsVectors(vfield.cells) :
          /\ vfield' = VfCallVf(fn, vfield, w)
          /\ ops' = Append(ops, [fam |-> "vf", fn |-> fn, by |-> "VectorField",
                                  rhs |-> w, was |-> vfield])
    /\ UNCHANGED <<engine, built, sfield, profile>>

\* vfield op= scalar
VFieldOpT ==
    /\ InRun("vf", MaxGridOps)
    /\ \E fn \in Methods, t \in Scalars :
          /\ vfield' = VfCallT(fn, vfield, t)
          /\ ops' = Append(ops, [fam |-> "vf", fn |-> fn, by |-> "T",
                                  rhs |-> t, was |-> vfield])
    /\ UNCHANGED <<engine, built, sfield, profile>>

\* vfield op= ScalarField of the same shape
VFieldOpSf ==
    /\ InRun("vf", MaxGridOps)
    /\ \E fn \in Methods, g \in RhsGrids(vfield.cells) :
          /\ vfield' = VfCallSf(fn, vfield, g)
          /\ ops' = Append(ops, [fam |-> "vf", fn |-> fn, by |-> "ScalarField",
                                  rhs |-> g, was |-> vfield])
    /\ UNCHANGED <<engine, built, sfield, profile>>

\* println!("{}", vfield): the rendering of vfield, or the index panic that
\* ends it
VFieldFmt ==
    /\ InRun("vf", MaxGridOps + 1)
    /\ ops' = Append(ops, [fam |-> "vf", fn |-> "fmt", by |-> "Formatter",
                            out |-> VectorFieldFmt(vfield), was |-> vfield])
    /\ UNCHANGED <<engine, built, sfield, vfield, profile>>

FieldNext ==
    \/ SFieldWrite
    \/ SFieldOpT
    \/ SFieldOpSf
    \/ VFieldOpVf
    \/ VFieldOpT
    \/ VFieldOpSf
    \/ VFieldFmt

FieldSpec == FieldInit /\ [][FieldNext]_vars

\* ------------------------------------------------------------------------
\* the relaxation sweep of solve_potential on its own, on grids with
\* interior nodes next to each other along every axis

\* the cells arguments of Electrostatic::new: two interior nodes along x
\* and z, and along every axis
SweepShapes == {CoordinateTriplet(4, 3, 4), CoordinateTriplet(4, 4, 4)}

SweepInit ==
    /\ \E c \in SweepShapes :
          EngineInit(CoordinateTriplet(GScale, GScale, GScale), c)
    /\ NoGrids
    /\ NoProfile

\* the values the deposition collaborator writes here: charges whose
\* potential is well above the resolution of the model's numbers
SweepCharges == {3000, 7000}

\* the deposition collaborator writes charge_density[(i, j, k)] = v
SweepDeposit ==
    /\ pc = "idle"
    /\ deposits < MaxDeposits
    /\ \E c \in DepositNodes(cells), v \in SweepCharges :
          charge_density' = IndexMut(charge_density, c[1], c[2], c[3], v)
    /\ deposits' = deposits + 1
    /\ UNCHANGED <<geometry, potential, electric_field, cell_vol, pc, loop_ctr,
                   l2_err_norm, solve_result, result, stages, sweeps, pre,
                   left, updates>>
    /\ UNCHANGED <<grids, profile>>

\* the body of one iteration of `while l2_err_norm > GS_TOL` up to the
\* convergence check: the sweep over the interior nodes
SweepCall ==
    /\ pc = "idle"
    /\ sweeps < MaxSweeps
    /\ potential' = Sweep(potential, charge_density, delta_inv_sq, cells)
    /\ sweeps' = sweeps + 1
    /\ UNCHANGED <<geometry, charge_density, electric_field, cell_vol, pc,
                   loop_ctr, l2_err_norm, solve_result, result, stages, pre,
                   left, updates, deposits>>
    /\ UNCHANGED <<grids, profile>>

SweepNext ==
    \/ SweepDeposit
    \/ SweepCall

SweepSpec == SweepInit /\ [][SweepNext]_vars

\* ------------------------------------------------------------------------
\* the loop of solve_potential on a long relaxation: a solve that is still
\* sweeping after thousands of iterations needs a grid of hundreds of
\* cells, so here the grid is not kept and the norm each convergence check
\* computes is an input

\* `if (loop_ctr % CONV_CHECK_ITER) == 0`
CheckTaken(ctr) == (ctr % CONV_CHECK_ITER) = 0

\* the norms a convergence check computes: zero, the tolerance, twice the
\* tolerance (the sqrt of a mean of squares is zero or more) and NaN
CheckNorms == {0, GS_TOL, 2 * GS_TOL, NaN}

\* the values l2_err_norm can have after the check of iteration ctr
NormsAfter(ctr, norm) == IF CheckTaken(ctr) THEN CheckNorms ELSE {norm}

\* the engine of the long relaxation, before any update()
LongRunInit ==
    /\ EngineUnused
    /\ NoGrids
    /\ NoProfile

\* one iteration of `while l2_err_norm > GS_TOL` of the long relaxation: the
\* sweep, the conditional convergence check, and the error return or the
\* counter increment
LongRunIteration ==
    /\ pc = "solve_potential"
    /\ FGt(l2_err_norm, GS_TOL)
    /\ sweeps' = IF sweeps < GS_MAX_ITER + 2 THEN sweeps + 1 ELSE sweeps
    /\ \E n \in NormsAfter(loop_ctr, l2_err_norm) : l2_err_norm' = n
    /\ IF CapReached(loop_ctr)
       THEN /\ solve_result' = "err"
            /\ pc' = AfterSolveErr
            /\ result' = IF pc' = "idle" THEN "err" ELSE "none"
            /\ stages' = IF pc' = "idle" THEN stages ELSE Append(stages, pc')
            /\ UNCHANGED loop_ctr
       ELSE /\ loop_ctr' = NextCtr(loop_ctr)
            /\ UNCHANGED <<pc, solve_result, result, stages>>
    /\ UNCHANGED <<geometry, potential, charge_density, electric_field,
                   cell_vol, pre, left, updates, deposits>>
    /\ UNCHANGED <<grids, profile>>

LongRunNext ==
    \/ UpdateCall
    \/ LongRunIteration
    \/ LoopExit
    \/ SolveElectricField

LongRunSpec == LongRunInit /\ [][LongRunNext]_vars

\* ------------------------------------------------------------------------
\* vocabulary of the properties

AtLeast2 == cells.x >= 2 /\ cells.y >= 2 /\ cells.z >= 2

AtLeast3 == cells.x >= 3 /\ cells.y >= 3 /\ cells.z >= 3

\* an update() has returned and none is in progress
Returned == pc = "idle" /\ updates >= 1

Axes == {1, 2, 3}

\* the in-range index triples of a grid of shape c
NodeSet(c) ==
    {<<i, j, k>> : i \in 0..(c.x - 1), j \in 0..(c.y - 1), k \in 0..(c.z - 1)}

\* the interior nodes: not first and not last along any axis
InteriorSet(c) ==
    {n \in NodeSet(c) : /\ 1 <= n[1] /\ n[1] < c.x - 1
                        /\ 1 <= n[2] /\ n[2] < c.y - 1
                        /\ 1 <= n[3] /\ n[3] < c.z - 1}

Component(ef, a) == IF a = 1 THEN ef.x ELSE IF a = 2 THEN ef.y ELSE ef.z

\* some cell of the grid holds a number other than zero
SomeNonZero(sf) == \E p \in DOMAIN sf.data : sf.data[p] # 0 /\ ~IsNaN(sf.data[p])

\* ------------------------------------------------------------------------
\* C1

\* C1: update() runs solve_potential and then solve_electric_field; when
\* solve_potential returns the non-convergence error, update() returns that
\* error, solve_electric_field has not run, and electric_field is what it
\* was before the call.
C1_ErrSkipsElectricField ==
    /\ solve_result = "err" =>
          /\ pc = "idle"
          /\ result = "err"
          /\ stages = <<"solve_potential">>
          /\ electric_field = pre.electric_field
    /\ (pc = "solve_electric_field" \/ result = "ok") =>
          /\ stages = <<"solve_potential", "solve_electric_field">>
          /\ solve_result = "ok"

\* update() has returned the non-convergence error with a potential that
\* solve_electric_field would have turned into a different electric_field
C1_Witness ==
    /\ Returned
    /\ result = "err"
    /\ SomeNonZero(potential)
    /\ SolveElectricFieldLoops(electric_field, potential, delta, cells).electric_field
          # electric_field

\* ------------------------------------------------------------------------
\* C2

StepTowardsReturn ==
    /\ pc = "solve_potential" =>
          /\ pc' \in {"solve_potential", "solve_electric_field", "idle"}
          /\ pc' = "solve_potential" =>
                loop_ctr' = loop_ctr + 1 /\ loop_ctr' <= GS_MAX_ITER
          /\ sweeps' <= GS_MAX_ITER + 1
    /\ pc = "solve_electric_field" => pc' = "idle"

\* C3 (as claimed, for every engine with at least 2 cells on every axis):
\* every step of a running update() gets nearer to the return, so every call
\* returns.
C3_ReturnsFrom2Cells ==
    [][(AtLeast2 /\ pc \in {"solve_potential", "solve_electric_field"})
          => StepTowardsReturn]_vars

\* C3 (amended, for every engine with at least 3 cells on every axis): every
\* step of a running update() gets nearer to the return: the loop counter
\* strictly increases each sweep, never passes GS_MAX_ITER, and
\* solve_electric_field returns; so every call returns, with Ok or with the
\* non-convergence error, after at most GS_MAX_ITER + 1 sweeps.
C3_ReturnsFrom3Cells ==
    [][(AtLeast3 /\ pc \in {"solve_potential", "solve_electric_field"})
          => StepTowardsReturn]_vars

\* an update() on a grid with 3 cells per axis has swept up to the iteration
\* cap and returned
C3_Witness ==
    /\ AtLeast3
    /\ Returned
    /\ loop_ctr = GS_MAX_ITER
    /\ sweeps = GS_MAX_ITER + 1

\* ------------------------------------------------------------------------
\* C4

\* the residual of the 7-point Laplacian of Poisson's equation at (i, j, k)
PoissonResidual(P, rho, dis, i, j, k) ==
    FAdd(FAdd(FAdd(FAdd(GMul(dis.x + dis.y + dis.z, FScale(2, FNeg(Index(P, i, j, k)))),
                        FScale(INV_VAC_PERM, Index(rho, i, j, k))),
                   GMul(dis.x, FAdd(Index(P, i + 1, j, k), Index(P, i - 1, j, k)))),
              GMul(dis.y, FAdd(Index(P, i, j + 1, k), Index(P, i, j - 1, k)))),
         GMul(dis.z, FAdd(Index(P, i, j, k + 1), Index(P, i, j, k - 1))))

\* C4: the solver's residual is the residual of the standard 7-point
\* discretisation of Poisson's equation at every interior node, for every
\* grid content.
C4_ResidualIsPoisson ==
    \A n \in InteriorSet(cells) :
        Residual(potential, charge_density, delta_inv_sq, n[1], n[2], n[3])
            = PoissonResidual(potential, charge_density, delta_inv_sq, n[1], n[2], n[3])

\* ------------------------------------------------------------------------
\* C5

\* C5: the first update() of a freshly constructed engine with at least 3
\* cells per axis and zero charge_density succeeds and leaves potential and
\* every component of electric_field zero at every cell.
C5_ZeroSteadyState ==
    (updates = 1 /\ AtLeast3 /\ pre.charge_density = ScalarFieldNew(cells)) =>
        /\ pc # "panicked"
        /\ solve_result # "err"
        /\ pc = "idle" =>
              /\ result = "ok"
              /\ potential = ScalarFieldNew(cells)
              /\ electric_field = VectorFieldNew(cells)

\* the first update() of a fresh engine with zero charge has returned Ok
C5_Witness ==
    /\ updates = 1
    /\ AtLeast3
    /\ pre.charge_density = ScalarFieldNew(cells)
    /\ pre.potential = ScalarFieldNew(cells)
    /\ pc = "idle"
    /\ result = "ok"
    /\ sweeps >= 1

\* ------------------------------------------------------------------------
\* C6

\* the current/last update() was called after an update() that returned Ok,
\* with the charge_density of that earlier call
RepeatedCall ==
    /\ updates >= 2
    /\ pre.result = "ok"
    /\ pre.charge_density = pre.prev_charge

\* C6 (as claimed): once an update() has succeeded, a further update() with
\* the same charge_density succeeds and leaves every cell of potential equal
\* to its value after the previous call.
C6_RepeatedUpdateKeepsPotential ==
    (Returned /\ RepeatedCall) => (result = "ok" /\ potential = pre.potential)

\* C6 (amended): once an update() has succeeded and left a potential that a
\* relaxation sweep maps to itself, a further update() with the same
\* charge_density succeeds after a single sweep and leaves every cell of
\* potential equal to its value after the previous call.
C6_RepeatedUpdateKeepsFixedPoint ==
    (/\ Returned
     /\ RepeatedCall
     /\ Sweep(pre.potential, pre.charge_density, delta_inv_sq, cells) = pre.potential)
        => (result = "ok" /\ sweeps = 1 /\ potential = pre.potential)

\* a further update() with the same charge_density has returned from a
\* potential that is not zero and that the sweep maps to itself
C6_Witness ==
    /\ Returned
    /\ RepeatedCall
    /\ SomeNonZero(pre.potential)
    /\ Sweep(pre.potential, pre.charge_density, delta_inv_sq, cells) = pre.potential
    /\ result = "ok"

\* ------------------------------------------------------------------------
\* C7

\* C7: the grid the first sweep of an update() reads is the grid the
\* previous update() left, whether it returned Ok or the error, or the zero
\* grid of construction for the first call.
C7_WarmStart ==
    (pc = "solve_potential" /\ sweeps = 0) =>
        /\ potential = left
        /\ updates = 1 => potential = ScalarFieldNew(cells)

\* a second update() is about to sweep a grid that is not zero, left by an
\* update() that returned the error
C7_Witness ==
    /\ pc = "solve_potential"
    /\ sweeps = 0
    /\ updates = 2
    /\ pre.result = "err"
    /\ SomeNonZero(potential)

\* ------------------------------------------------------------------------
\* C8

\* C8: after a successful update() on a grid with at least 3 cells per axis
\* every cell of every component of electric_field holds the stencil value
\* of the potential that the solve of that call left.
C8_ElectricFieldOverwritten ==
    (Returned /\ result = "ok" /\ AtLeast3) =>
        \A n \in NodeSet(cells) : \A a \in Axes :
            At(Component(electric_field, a), n)
                = StencilValue(potential, delta, cells, n, a)

\* a successful update() has replaced an electric_field that was not zero
\* by a different one
C8_Witness ==
    /\ Returned
    /\ result = "ok"
    /\ AtLeast3
    /\ SomeNonZero(pre.electric_field.x)
    /\ electric_field.x # pre.electric_field.x
    /\ \E p \in DOMAIN electric_field.y.data :
          electric_field.y.data[p] # pre.electric_field.y.data[p]

\* ------------------------------------------------------------------------
\* C9

\* C9: no step of update(), from the call to the return, changes size,
\* cells, delta, delta_inv_sq, charge_density or cell_vol, or the potential
\* of a node that is not an interior node.
C9_UpdateFrame ==
    [][(pc # "idle" \/ pc' # "idle") =>
          /\ size' = size
          /\ cells' = cells
          /\ delta' = delta
          /\ delta_inv_sq' = delta_inv_sq
          /\ charge_density' = charge_density
          /\ cell_vol' = cell_vol
          /\ \A n \in NodeSet(cells) \ InteriorSet(cells) :
                At(potential', n) = At(potential, n)]_vars

\* an update() has returned after changing potential and electric_field
C9_Witness ==
    /\ Returned
    /\ potential # pre.potential
    /\ electric_field # pre.electric_field
    /\ charge_density = pre.charge_density

\* ------------------------------------------------------------------------
\* C10

\* C10: the step on which solve_potential returns the non-convergence
\* error leaves in potential the grid its last sweep produced, and leaves
\* charge_density as it was before the call.
C10_ErrNotRolledBack ==
    [][(pc = "solve_potential" /\ solve_result' = "err") =>
          /\ potential' = Sweep(potential, charge_density, delta_inv_sq, cells)
          /\ charge_density' = pre.charge_density]_vars

\* update() has returned the error and potential is not what it was before
\* the call
C10_Witness ==
    /\ Returned
    /\ result = "err"
    /\ potential # pre.potential
    /\ sweeps = GS_MAX_ITER + 1

\* ------------------------------------------------------------------------
\* vocabulary of the properties of the constructors

\* the constructor call f has returned (or panicked)
NewReturned(f) == built.state = "returned" /\ built.fn = f

\* a shape with 0 or 1 cells on some axis
Degenerate(c) == c.x <= 1 \/ c.y <= 1 \/ c.z <= 1

\* the grid g has the shape c, a buffer of one element per cell, and holds
\* zero everywhere
ZeroOfShape(g, c) ==
    /\ g.cells = c
    /\ Len(g.data) = c.x * c.y * c.z
    /\ \A p \in DOMAIN g.data : g.data[p] = 0

\* ------------------------------------------------------------------------
\* C11

C15_IndexIsBijection ==
    NewReturned("ScalarField::new") =>
        LET g   == built.grid
            pos == {LinearIndex(g, n[1], n[2], n[3]) : n \in NodeSet(built.cells)}
        IN  /\ \A n \in NodeSet(built.cells) : InBuffer(g, n[1], n[2], n[3])
            /\ Cardinality(pos) = Cardinality(NodeSet(built.cells))
            /\ pos = 0..(built.cells.x * built.cells.y * built.cells.z - 1)

\* ScalarField::new has returned a grid whose three axes differ in length
C15_Witness ==
    /\ NewReturned("ScalarField::new")
    /\ built.cells = CoordinateTriplet(2, 3, 4)
    /\ LinearIndex(built.grid, 1, 2, 3) = 23

\* ------------------------------------------------------------------------
\* C16

\* C16: ScalarField::new(shape) succeeds for every shape and returns a grid
\* whose cells member is shape, whose row offset is nx, whose plane offset
\* is nx * ny, and whose buffer has exactly nx * ny * nz elements, all zero.
C16_ScalarFieldNewZeroFilled ==
    NewReturned("ScalarField::new") =>
        /\ built.outcome = "ok"
        /\ built.grid.r_offset = built.cells.x
        /\ built.grid.p_offset = built.cells.x * built.cells.y
        /\ ZeroOfShape(built.grid, built.cells)

\* ScalarField::new has returned the grid of 2 x 4 x 3 cells
C16_Witness ==
    /\ NewReturned("ScalarField::new")
    /\ built.cells = CoordinateTriplet(2, 4, 3)
    /\ Len(built.grid.data) = 24
    /\ built.grid.p_offset = 8

\* ------------------------------------------------------------------------
\* C13

\* C13: for a potential that is exactly linear along one axis,
\* P = a * idx + b, and constant along the other two, on a grid with at
\* least 3 cells per axis, solve_electric_field leaves at every cell, the
\* first and the last along that axis included, exactly -a / delta of that
\* axis in the component of that axis and exactly 0 in the other two.
C13_LinearProfileExactGradient ==
    (profile.axis # 0 /\ AtLeast3) =>
        /\ pc # "panicked"
        /\ pc = "idle" =>
              \A n \in NodeSet(cells) : \A c \in Axes :
                  At(Component(electric_field, c), n)
                      = IF c = profile.axis
                        THEN GDiv(FNeg(profile.a), AxisOf(delta, c))
                        ELSE 0

\* solve_electric_field has returned on a potential that rises along y on a
\* grid with more than 3 cells along y: the low edge, an interior node and
\* the high edge hold the same gradient, which is not zero
C13_Witness ==
    /\ profile.axis = 2
    /\ profile.a = 5
    /\ profile.b = 7
    /\ pc = "idle"
    /\ cells.y > 3
    /\ At(electric_field.y, <<1, 0, 1>>) = GDiv(0 - 5, delta.y)
    /\ At(electric_field.y, <<1, 1, 1>>) = At(electric_field.y, <<1, 0, 1>>)
    /\ At(electric_field.y, <<1, cells.y - 1, 1>>) = At(electric_field.y, <<1, 0, 1>>)
    /\ At(electric_field.y, <<1, 0, 1>>) # 0

\* ------------------------------------------------------------------------
\* vocabulary of the properties of the grids of their own

\* the calls made so far are of the family fam
InFamily(fam) == ops # <<>> /\ ops[1].fam = fam

\* the last call made
LastOp == ops[Len(ops)]

\* x op y for the op of the compound assignment method fn
Apply(fn, x, y) ==
    CASE fn = "add_assign" -> FAdd(x, y)
      [] fn = "sub_assign" -> FSub(x, y)
      [] fn = "mul_assign" -> TMul(x, y)
      [] fn = "div_assign" -> TDiv(x, y)

\* every cell of g holds v
IsFilledWith(g, v) == \A p \in DOMAIN g.data : g.data[p] = v

\* the largest member of a non-empty set of numbers
MaxOf(S) == CHOOSE m \in S : \A o \in S : o <= m

\* ------------------------------------------------------------------------
\* C14

\* C14: after writes through the index operator at in-range indices, reading
\* any in-range (i, j, k) returns the value last written to (i, j, k), a
\* later write to a different cell changes nothing there, and a cell never
\* written still holds zero.
C14_IndexRoundTrip ==
    InFamily("index") =>
        \A n \in NodeSet(sfield.cells) :
            LET ms == {m \in 1..Len(ops) : ops[m].at = n}
            IN  At(sfield, n) = IF ms = {} THEN 0 ELSE ops[MaxOf(ms)].rhs

\* two different values have been written to two different cells of the
\* second plane and both are read back
C14_Witness ==
    /\ InFamily("index")
    /\ Len(ops) = 2
    /\ ops[1].at = <<1, 2, 1>>
    /\ ops[2].at = <<0, 1, 1>>
    /\ ops[1].rhs # ops[2].rhs
    /\ At(sfield, <<1, 2, 1>>) = ops[1].rhs
    /\ At(sfield, <<0, 1, 1>>) = ops[2].rhs

\* ------------------------------------------------------------------------
\* C17

\* C17: each grid-scalar compound operator leaves in every cell the old
\* value of that cell combined with the scalar, and the shape as it was;
\* `grid += a; grid *= b; grid -= c; grid /= d` on a grid filled with v
\* leaves ((v + a) * b - c) / d in every cell; and the order matters:
\* `+= a; *= b` does not leave what `*= b; += a` would.
C17_ScalarBroadcastLaw ==
    InFamily("sf_t") =>
        LET n == Len(ops)
        IN  /\ sfield.cells = LastOp.was.cells
            /\ DOMAIN sfield.data = DOMAIN LastOp.was.data
            /\ \A p \in DOMAIN sfield.data :
                  sfield.data[p] = Apply(LastOp.fn, LastOp.was.data[p], LastOp.rhs)
            /\ (/\ n >= 4
                /\ <<ops[n - 3].fn, ops[n - 2].fn, ops[n - 1].fn, ops[n].fn>>
                      = <<"add_assign", "mul_assign", "sub_assign", "div_assign">>
                /\ IsFilledWith(ops[n - 3].was, ops[n - 3].was.data[1])) =>
                    IsFilledWith(sfield,
                        TDiv(FSub(TMul(FAdd(ops[n - 3].was.data[1], ops[n - 3].rhs),
                                       ops[n - 2].rhs),
                                  ops[n - 1].rhs),
                             ops[n].rhs))
            /\ (/\ n >= 2
                /\ ops[n - 1].fn = "add_assign"
                /\ ops[n].fn = "mul_assign") =>
                    \A p \in DOMAIN sfield.data :
                        sfield.data[p]
                            # FAdd(TMul(ops[n - 1].was.data[p], ops[n].rhs), ops[n - 1].rhs)

\* a grid filled with 5.0 has gone through += 2.0, *= 5.0, -= 2.0, /= 2.0
\* and holds ((5 + 2) * 5 - 2) / 2 = 16.5 in its first and its last cell
C17_Witness ==
    /\ InFamily("sf_t")
    /\ Len(ops) = 5
    /\ <<ops[1].fn, ops[2].fn, ops[3].fn, ops[4].fn, ops[5].fn>>
          = <<"add_assign", "add_assign", "mul_assign", "sub_assign", "div_assign">>
    /\ <<ops[1].rhs, ops[2].rhs, ops[3].rhs, ops[4].rhs, ops[5].rhs>>
          = <<5 * GScale, 2 * GScale, 5 * GScale, 2 * GScale, 2 * GScale>>
    /\ sfield.data[1] = 1650
    /\ sfield.data[Len(sfield.data)] = 1650
    /\ Len(sfield.data) = 12

\* ------------------------------------------------------------------------
\* C18

\* C18: after `g1 op= g2` with g2 of the shape of g1, every cell of g1
\* holds its old value combined with the value of g2 at the same position,
\* for each of the four operators, and g1 keeps its shape.
C18_GridGridPointwise ==
    InFamily("sf_sf") =>
        /\ sfield.cells = LastOp.was.cells
        /\ DOMAIN sfield.data = DOMAIN LastOp.was.data
        /\ \A p \in DOMAIN sfield.data :
              sfield.data[p]
                  = Apply(LastOp.fn, LastOp.was.data[p], LastOp.rhs.data[p])

\* a grid whose cells differ has had a grid whose cells differ subtracted
\* from it
C18_Witness ==
    /\ InFamily("sf_sf")
    /\ Len(ops) = 2
    /\ ops[1].fn = "mul_assign" \/ ops[1].fn = "add_assign"
    /\ ops[2].fn = "sub_assign"
    /\ ops[2].rhs = Ramp(sfield.cells)
    /\ ops[2].was.data[1] # ops[2].was.data[2]
    /\ sfield.data[2] = FSub(ops[2].was.data[2], 2 * GScale)

\* ------------------------------------------------------------------------
\* C19

\* C19: a VectorField compound operator against a VectorField of the same
\* shape or against a scalar leaves in each component what the same
\* ScalarField operator gives on the old value of that component alone,
\* with the same component of the right-hand side or with the scalar.
C19_VectorComponentwise ==
    (InFamily("vf") /\ LastOp.by \in {"VectorField", "T"}) =>
        LET o == LastOp
        IN  /\ vfield.cells = o.was.cells
            /\ IF o.by = "VectorField"
               THEN /\ vfield.x = SfCallSf(o.fn, o.was.x, o.rhs.x)
                    /\ vfield.y = SfCallSf(o.fn, o.was.y, o.rhs.y)
                    /\ vfield.z = SfCallSf(o.fn, o.was.z, o.rhs.z)
               ELSE /\ vfield.x = SfCallT(o.fn, o.was.x, o.rhs)
                    /\ vfield.y = SfCallT(o.fn, o.was.y, o.rhs)
                    /\ vfield.z = SfCallT(o.fn, o.was.z, o.rhs)

\* a VectorField whose components differ has had a VectorField whose
\* components differ added to it, and its components differ again
C19_Witness ==
    /\ InFamily("vf")
    /\ Len(ops) = 2
    /\ ops[2].by = "VectorField"
    /\ ops[2].fn = "add_assign"
    /\ ops[2].was.x # ops[2].was.y
    /\ ops[2].rhs.x # ops[2].rhs.y
    /\ vfield.x # vfield.y
    /\ vfield.y # vfield.z
    /\ vfield.y # ops[2].was.y

\* ------------------------------------------------------------------------
\* C20

\* C20: after `v op= s` for a VectorField v and a ScalarField s of the same
\* shape, every cell of each of the three components of v holds its old
\* value combined with the value of s at the same cell, for each of the
\* four operators.
C20_ScalarGridOnAllComponents ==
    (InFamily("vf") /\ LastOp.by = "ScalarField") =>
        \A a \in Axes :
            /\ DOMAIN Component(vfield, a).data = DOMAIN Component(LastOp.was, a).data
            /\ \A p \in DOMAIN Component(vfield, a).data :
                  Component(vfield, a).data[p]
                      = Apply(LastOp.fn, Component(LastOp.was, a).data[p],
                              LastOp.rhs.data[p])

\* a VectorField whose components differ has been divided by a grid whose
\* cells differ, and its z component has changed
C20_Witness ==
    /\ InFamily("vf")
    /\ Len(ops) = 2
    /\ ops[2].by = "ScalarField"
    /\ ops[2].fn = "div_assign"
    /\ ops[2].rhs = Ramp(vfield.cells)
    /\ ops[2].was.x # ops[2].was.z
    /\ SomeNonZero(ops[2].was.z)
    /\ vfield.z # ops[2].was.z
    /\ vfield.x # ops[2].was.x

\* ------------------------------------------------------------------------
\* C21

\* the lines of the rendering labelled with cell c
LinesOf(out, c) == {m \in DOMAIN out.lines : out.lines[m].at = c}

\* C21: the rendering of a VectorField completes for every shape and has,
\* for every in-range cell (i, j, k), exactly one line labelled (i, j, k),
\* whose three values are the x, y and z components stored at (i, j, k).
C21_FmtPrintsOwnCell ==
    (InFamily("vf") /\ LastOp.fn = "fmt") =>
        /\ ~LastOp.out.panic
        /\ \A c \in NodeSet(vfield.cells) :
              /\ Cardinality(LinesOf(LastOp.out, c)) = 1
              /\ \A m \in LinesOf(LastOp.out, c) :
                    /\ LastOp.out.lines[m].x = At(vfield.x, c)
                    /\ LastOp.out.lines[m].y = At(vfield.y, c)
                    /\ LastOp.out.lines[m].z = At(vfield.z, c)

\* ------------------------------------------------------------------------
\* vocabulary of the properties of the loop of solve_potential

\* the current or last update() has swept, so l2_err_norm is the norm its
\* most recent convergence check computed
Checked == stages # <<>> /\ sweeps > 0

\* l2_err_norm is a number that is <= GS_TOL
NormWithinTol == ~IsNaN(l2_err_norm) /\ l2_err_norm <= GS_TOL

\* ------------------------------------------------------------------------
\* C22

\* C22: whenever a convergence check of solve_potential, at any checked
\* counter value 0, 25, ..., GS_MAX_ITER, has computed a norm <= GS_TOL, the
\* solve stops sweeping and returns success, not the error.
C22_ConvergedCheckReturnsOk ==
    (Checked /\ NormWithinTol) => solve_result # "err"

\* ------------------------------------------------------------------------
\* C23

\* a step of solve_potential that sweeps
SweepStep == pc = "solve_potential" /\ sweeps' # sweeps

\* C23: the convergence check runs after exactly the sweeps whose counter is
\* a multiple of CONV_CHECK_ITER, the one of counter 0 included: such a
\* sweep leaves in l2_err_norm the norm of the grid it has written, every
\* other sweep leaves l2_err_norm as it was; and a solve that has returned
\* success has made CONV_CHECK_ITER * m + 1 sweeps for some m >= 0.
C23_CheckEvery25Sweeps ==
    [][/\ SweepStep =>
            l2_err_norm' = IF loop_ctr % CONV_CHECK_ITER = 0
                           THEN L2ErrNorm(potential', charge_density,
                                          delta_inv_sq, cells)
                           ELSE l2_err_norm
       /\ solve_result' = "ok" =>
            /\ sweeps' >= 1
            /\ sweeps' % CONV_CHECK_ITER = 1]_vars

\* a solve has returned success after more than one convergence check: the
\* sweeps between its checks kept the norm above the tolerance
C23_Witness ==
    /\ solve_result = "ok"
    /\ sweeps > 1
    /\ NormWithinTol

\* ------------------------------------------------------------------------
\* C24

\* node a comes before node b in the order i outermost, j middle, k
\* innermost
Before(a, b) ==
    \/ a[1] < b[1]
    \/ a[1] = b[1] /\ a[2] < b[2]
    \/ a[1] = b[1] /\ a[2] = b[2] /\ a[3] < b[3]

\* the buffer positions of the -1 neighbours of node c that are among the
\* nodes `inner`
LowPositions(sf, c, inner) ==
    {LinearIndex(sf, n[1], n[2], n[3]) + 1 :
        n \in {Shift(c, a, 0 - 1) : a \in Axes} \cap inner}

\* the grid as the claim says node c finds it when a sweep that takes old
\* to new updates it: the interior -1 neighbours of c, at the positions
\* low, hold their new value, every other node its old one
SeenBy(low, old, new) ==
    [old EXCEPT !.data =
        [p \in DOMAIN old.data |->
            IF p \in low THEN new.data[p] ELSE old.data[p]]]

\* C24: a sweep visits the interior nodes in ascending order with i
\* outermost, j middle, k innermost and updates in place: the value it
\* writes at (i, j, k) is the update computed on a grid where the interior
\* -1 neighbours of (i, j, k) hold their value of this sweep and the +1
\* neighbours and (i, j, k) itself their value of before the sweep.
C24_SweepInPlaceAscending ==
    [][(sweeps' = sweeps + 1) =>
         LET nodes == InteriorNodes(cells)
             inner == InteriorSet(cells)
         IN  /\ \A m, n \in DOMAIN nodes : m < n => Before(nodes[m], nodes[n])
             /\ {nodes[m] : m \in DOMAIN nodes} = inner
             /\ \A c \in inner :
                   LET low == LowPositions(potential, c, inner)
                   IN  At(potential', c)
                         = At(RelaxNode(SeenBy(low, potential, potential'),
                                        charge_density, delta_inv_sq,
                                        c[1], c[2], c[3]),
                              c)]_vars

\* on the 4 x 4 x 4 grid a sweep has changed the last interior node and its
\* three -1 neighbours, and on the grid of before the sweep the update of
\* the last node would have been another value
C24_Witness ==
    /\ cells = CoordinateTriplet(4, 4, 4)
    /\ sweeps >= 2
    /\ LET old  == potential
           new  == Sweep(potential, charge_density, delta_inv_sq, cells)
       IN  /\ \A a \in Axes : At(new, Shift(<<2, 2, 2>>, a, 0 - 1))
                                  # At(old, Shift(<<2, 2, 2>>, a, 0 - 1))
           /\ At(new, <<2, 2, 2>>)
                 # At(RelaxNode(old, charge_density, delta_inv_sq, 2, 2, 2),
                      <<2, 2, 2>>)

\* ------------------------------------------------------------------------
\* C25

\* the boundary nodes: first or last along some axis
BoundarySet(c) == NodeSet(c) \ InteriorSet(c)

\* C25: no step of update() writes potential at a boundary node, and the
\* potential at every boundary node is zero, as construction left it,
\* whatever the sequence of update() calls and deposits.
C25_BoundaryStaysZero ==
    [][\A n \in BoundarySet(cells) :
          /\ At(potential, n) = 0
          /\ At(potential', n) = At(potential, n)]_vars

\* a second update() has returned, the interior of the potential holds a
\* number other than zero and every boundary node holds zero
C25_Witness ==
    /\ Returned
    /\ updates >= 2
    /\ AtLeast3
    /\ \E n \in InteriorSet(cells) : At(potential, n) # 0 /\ ~IsNaN(At(potential, n))
    /\ \A n \in BoundarySet(cells) : At(potential, n) = 0

\* ------------------------------------------------------------------------
\* C26

\* the sum or the difference of the potentials of the two neighbours of
\* node c along axis a, on grid G
NeighbourSum(G, c, a) == FAdd(At(G, Shift(c, a, 1)), At(G, Shift(c, a, 0 - 1)))

NeighbourDiff(G, c, a) == FSub(At(G, Shift(c, a, 1)), At(G, Shift(c, a, 0 - 1)))

\* potential_new as the claim writes it: the charge term, the x neighbours
\* added and the y and z neighbours subtracted, over 2 * (inv_dx2 + inv_dy2
\* + inv_dz2)
ClaimedPotentialNew(G, c) ==
    GDiv(FAdd(FAdd(FAdd(FScale(INV_VAC_PERM, At(charge_density, c)),
                        GMul(delta_inv_sq.x, NeighbourSum(G, c, 1))),
                   GMul(delta_inv_sq.y, NeighbourDiff(G, c, 2))),
              GMul(delta_inv_sq.z, NeighbourDiff(G, c, 3))),
         2 * (delta_inv_sq.x + delta_inv_sq.y + delta_inv_sq.z))

\* C26: at each interior node the relaxation step computes potential_new =
\* [rho/eps0 + inv_dx2 * (P(i+1) + P(i-1)) + inv_dy2 * (P(j+1) - P(j-1))
\* + inv_dz2 * (P(k+1) - P(k-1))] / (2 * (inv_dx2 + inv_dy2 + inv_dz2)) on
\* the grid as the node finds it, and sets the potential of the node to
\* potential + SOR_ACC * (potential_new - potential).
C26_RelaxationFormula ==
    [][(sweeps' = sweeps + 1) =>
         LET inner == InteriorSet(cells)
         IN  \A c \in inner :
               LET G == SeenBy(LowPositions(potential, c, inner),
                               potential, potential')
               IN  At(potential', c)
                     = FAdd(At(G, c),
                            GMul(SOR_ACC, FSub(ClaimedPotentialNew(G, c), At(G, c))))]_vars

\* a sweep has updated node (2, 2, 2) of the 4 x 4 x 4 grid with a neighbour
\* other than zero below it along each axis: adding the y and z neighbours
\* would have given another value
C26_Witness ==
    /\ cells = CoordinateTriplet(4, 4, 4)
    /\ sweeps >= 1
    /\ \A a \in Axes : At(potential, Shift(<<2, 2, 2>>, a, 0 - 1)) # 0
    /\ At(potential, <<2, 2, 2>>) # 0
    /\ \A n \in InteriorSet(cells) : ~IsNaN(At(potential, n))

\* ------------------------------------------------------------------------
\* C27

\* -x / (2 * delta) along axis a, computed as the product of x by the
\* negative inverse -1 / (2 * delta)
OverNegTwoDelta(x, a) ==
    GMul(RoundDiv(0 - GScale * GScale, 2 * AxisOf(delta, a)), x)

\* the potential at node c moved to index idx along axis a, the other two
\* indices held fixed
Along(P, c, a, idx) == At(P, [c EXCEPT ![a] = idx])

\* the component along axis a at node c as the claim writes it, from the
\* index of c along a alone
ClaimedStencil(P, c, a) ==
    LET n   == AxisCells(cells, a)
        idx == c[a]
    IN  IF idx = 0
        THEN OverNegTwoDelta(
                 FSub(FAdd(FScale(0 - 3, Along(P, c, a, 0)),
                           FScale(4, Along(P, c, a, 1))),
                      Along(P, c, a, 2)), a)
        ELSE IF idx = n - 1
        THEN OverNegTwoDelta(
                 FAdd(FSub(Along(P, c, a, n - 3),
                           FScale(4, Along(P, c, a, n - 2))),
                      FScale(3, Along(P, c, a, n - 1))), a)
        ELSE OverNegTwoDelta(
                 FSub(Along(P, c, a, idx + 1), Along(P, c, a, idx - 1)), a)

\* C27: solve_electric_field classifies each axis on its own at every cell:
\* along an axis with n cells the component at index 0 is the forward
\* stencil -(-3 P(0) + 4 P(1) - P(2)) / (2 delta), at index n - 1 the
\* backward stencil -(P(n-3) - 4 P(n-2) + 3 P(n-1)) / (2 delta), at every
\* other index the central stencil -(P(idx+1) - P(idx-1)) / (2 delta), the
\* other two indices being those of the cell.
C27_StencilPerAxis ==
    [][(pc = "solve_electric_field" /\ pc' = "idle") =>
          \A c \in NodeSet(cells) : \A a \in Axes :
              At(Component(electric_field', a), c) = ClaimedStencil(potential, c, a)]_vars

\* solve_electric_field has returned on the grid with 4 cells along y with
\* the potential of node (1, 2, 1) other than zero: the y component is not
\* zero at the central index 1 and at the last index 3 of that line, and
\* the x and z components are not zero at the first x index and the last z
\* index next to the node
C27_Witness ==
    /\ Returned
    /\ result = "ok"
    /\ cells.y = 4
    /\ At(potential, <<1, 2, 1>>) # 0
    /\ ~IsNaN(At(potential, <<1, 2, 1>>))
    /\ At(electric_field.y, <<1, 1, 1>>) # 0
    /\ At(electric_field.y, <<1, 3, 1>>) # 0
    /\ At(electric_field.x, <<0, 2, 1>>) # 0
    /\ At(electric_field.z, <<1, 2, 2>>) # 0

\* ------------------------------------------------------------------------
\* C28

\* the index triple t is in range on each axis
InRange(t) ==
    /\ 0 <= t[1] /\ t[1] < cells.x
    /\ 0 <= t[2] /\ t[2] < cells.y
    /\ 0 <= t[3] /\ t[3] < cells.z

\* C28: on an engine with at least 3 cells along every axis no update()
\* ends in an index panic, and every index triple with which the
\* solve_potential and the solve_electric_field of a returned update() have
\* read or written potential, charge_density or electric_field is in range
\* on each axis.
C28_IndicesInRange ==
    AtLeast3 =>
        /\ pc # "panicked"
        /\ Returned =>
              /\ \A t \in SolvePotentialAccesses(cells) : InRange(t)
              /\ \A t \in SolveElectricFieldAccesses(cells) : InRange(t)

\* both functions have run to the end on the grid with 4 cells along y,
\* where the loops reach the first, both central and the last index
C28_Witness ==
    /\ Returned
    /\ result = "ok"
    /\ AtLeast3
    /\ cells.y = 4
    /\ stages = <<"solve_potential", "solve_electric_field">>
    /\ <<1, 3, 1>> \in SolveElectricFieldAccesses(cells)
    /\ <<1, 3, 1>> \in SolvePotentialAccesses(cells)
    /\ <<0, 0, 0>> \in SolveElectricFieldAccesses(cells)
    /\ SomeNonZero(electric_field.y)

\* ------------------------------------------------------------------------
\* C29

\* C29: solve_potential returns success only if the norm computed by the
\* most recent convergence check of that same call is a number <= GS_TOL:
\* never on a norm above the tolerance, left by an earlier call, or not a
\* number.
C29_OkOnlyOnConvergedNorm ==
    solve_result = "ok" => (Checked /\ NormWithinTol)

\* ------------------------------------------------------------------------
\* C30

\* the residual of the convergence check at node c of the present grid
ResAt(c) == Residual(potential, charge_density, delta_inv_sq, c[1], c[2], c[3])

\* 2 * (inv_dx2 + inv_dy2 + inv_dz2) * (potential_new - potential) at node
\* c of the present grid, for the potential_new of the update step
ScaledUpdateAt(c) ==
    GMul(2 * (delta_inv_sq.x + delta_inv_sq.y + delta_inv_sq.z),
         FSub(PotentialNew(potential, charge_density, delta_inv_sq, c[1], c[2], c[3]),
              At(potential, c)))

\* a relaxation step at node c of the present grid leaves its potential as
\* it is
StepKeeps(c) ==
    At(RelaxNode(potential, charge_density, delta_inv_sq, c[1], c[2], c[3]), c)
        = At(potential, c)

\* the largest difference the roundings of potential_new, of the product by
\* 2 * (inv_dx2 + inv_dy2 + inv_dz2) and of the residual can make between
\* the two: half a unit of potential_new times the factor, and a unit
RoundingSlack ==
    ((delta_inv_sq.x + delta_inv_sq.y + delta_inv_sq.z) \div GScale) + 2

\* C30 as stated: on the same grid the residual at an interior node equals
\* 2 * (inv_dx2 + inv_dy2 + inv_dz2) * (potential_new - potential), and it
\* is zero exactly when a relaxation step leaves the node unchanged.
C30_ResidualIsScaledUpdate ==
    \A c \in InteriorSet(cells) :
        /\ ResAt(c) = ScaledUpdateAt(c)
        /\ (ResAt(c) = 0) <=> StepKeeps(c)

\* C30, amended: on the same grid the residual at an interior node and
\* 2 * (inv_dx2 + inv_dy2 + inv_dz2) * (potential_new - potential) are
\* both not a number or differ by no more than the rounding of the
\* operations that compute them.
C30_ResidualNearScaledUpdate ==
    \A c \in InteriorSet(cells) :
        IF IsNaN(ResAt(c)) \/ IsNaN(ScaledUpdateAt(c))
        THEN IsNaN(ResAt(c)) /\ IsNaN(ScaledUpdateAt(c))
        ELSE /\ ResAt(c) - ScaledUpdateAt(c) <= RoundingSlack
             /\ ScaledUpdateAt(c) - ResAt(c) <= RoundingSlack

\* after a sweep, the residual at an interior node is far above the
\* rounding and is not the scaled update to the last digit, and at an
\* interior node a relaxation step would change nothing although the
\* residual there is not zero
C30_Witness ==
    /\ sweeps >= 1
    /\ \E c \in InteriorSet(cells) :
          /\ ~IsNaN(ResAt(c))
          /\ ResAt(c) # ScaledUpdateAt(c)
          /\ (ResAt(c) > 10 * RoundingSlack \/ 0 - ResAt(c) > 10 * RoundingSlack)
    /\ \E c \in InteriorSet(cells) :
          /\ ~IsNaN(ResAt(c))
          /\ ResAt(c) # 0
          /\ StepKeeps(c)

====
